---- MODULE Spec2Model ----
(***************************************************************************)
(* A model of the credential lifecycle manager of opencode-antigravity-auth *)
(*                                                                         *)
(*   ProactiveRefreshQueue   the background refresh queue                  *)
(*   refreshAccessToken      the retrying token refresher (plugin/token.ts)*)
(*                                                                         *)
(* Time is the millisecond clock Date.now().  The pending setTimeout       *)
(* timers are kept in the order of their creation;                         *)
(* the event loop fires them in an order their delays allow.  An await is  *)
(* a place where a pass is suspended and the other handlers may run.       *)
(***************************************************************************)
EXTENDS Integers, Sequences, FiniteSets, TLC

(***************************************************************************)
(* Bounds of the model.                                                    *)
(***************************************************************************)
MaxTimers == 3          \* setTimeout timers pending at one time
MaxPasses == 2          \* runRefreshCheck invocations suspended at one time
MaxErrors == 2          \* failing token refreshes the environment produces
MaxStarts == 2          \* start() calls that start the queue
Now0 == 1000            \* Date.now() when the queue is constructed
Horizon == 100000       \* the clock is followed up to Now0 + Horizon
RandDen == 100          \* Math.random() is drawn as r / RandDen

MaxNow == Now0 + Horizon

\* The draws of Math.random() in [0, 1): the least and a greatest one.
RandSet == {0, RandDen - 1}

(***************************************************************************)
(* Program constants (ProactiveRefreshQueue).                              *)
(***************************************************************************)
bufferSeconds == 1800
checkIntervalSeconds == 300
initialDelayMs == 3000
expiresInSeconds == 3600

(***************************************************************************)
(* Program constants (plugin/token.ts).                                    *)
(***************************************************************************)
MAX_RETRIES == 3
INITIAL_RETRY_DELAY_MS == 100
MAX_RETRY_DELAY_MS == 2000

urgentThresholdMs == 60 * 1000
bufferMs == bufferSeconds * 1000
baseIntervalMs == checkIntervalSeconds * 1000

TimerIds == 1..MaxTimers
PassIds == 1..MaxPasses

VARIABLES
    now,          \* Date.now()
    enabled,      \* config.enabled
    hasManager,   \* this.accountManager is not null
    accounts,     \* the managed accounts: account index -> expires (0: unset)
    state,        \* this.state: RefreshQueueState
    timers,       \* the pending setTimeout timers, in the order of their creation
    passes,       \* pass slot -> the runRefreshCheck invocation suspended in it
    owner,        \* the pass that last set state.isRefreshing (0: none)
    saved,        \* saveToDisk() calls that succeeded
    nStarts,      \* start() calls that started the queue
    midStop,      \* stop() was called during a pass, and start() not since
    awaitInitial, \* start() found nothing urgent, and no initial-delay timer fired since
    ev,           \* what the last handler did
    tok,          \* the refreshAccessToken invocation
    authCache,    \* the cached auth entries (plugin/cache)
    projectCache, \* the refresh blobs with a cached project context (plugin/project)
    xf,           \* the streaming transformer created last, and the stream it is fed
    signatureStore, \* the SignatureStore handed to the transformers: key -> SignedThinking
    storeOps,     \* when each key of the store was set, and the last call of the store
    thoughtOps,   \* a ThoughtBuffer of createThoughtBuffer, and the last call of it
    retryDelay,   \* the last call of getRetryDelay
    xg            \* a second streaming transformer that shares the SignatureStore

vars == <<now, enabled, hasManager, accounts, state, timers, passes, owner, saved,
          nStarts, midStop, awaitInitial, ev, tok, authCache, projectCache, xf, signatureStore, storeOps, thoughtOps, retryDelay, xg>>

NoPass == [origin |-> "none", cands |-> <<>>, k |-> 0, phase |-> "none", since |-> 0]

\* The record of one handler run: op is the handler, the rest what it did.
NoEv(op) ==
    [op |-> op,
     calls |-> 0,        \* runRefreshCheck invocations
     began |-> 0,        \* the pass slot that set isRefreshing (0: none)
     skipped |-> FALSE,  \* an invocation returned at the isRefreshing guard
     cands |-> <<>>,     \* the candidates the pass that began has fetched
     initiated |-> 0,    \* the account whose token refresh was initiated (0: none)
     clearedBy |-> 0,    \* the pass slot that cleared isRefreshing (0: none)
     ownerWas |-> 0,     \* owner when it was cleared
     origin |-> "none",  \* the caller of the invocation that settled
     kinds |-> <<>>,     \* the kinds of the timers created, in order
     delays |-> <<>>,    \* the delays they were created with, in ms
     cancelled |-> 0,    \* pending timers cancelled
     urgent |-> FALSE,   \* hasUrgentRefreshNeeds() returned true
     slot |-> 0,         \* the pass whose await settled (0: none)
     acct |-> 0,         \* the account that await was about
     outcome |-> "none"] \* how it settled

(***************************************************************************)
(* addJitter (r is the draw of Math.random(), as r / RandDen).             *)
(***************************************************************************)
addJitter(delayMs, r) == (delayMs * (9 * RandDen + 2 * r)) \div (10 * RandDen)

(***************************************************************************)
(* needsRefresh, isExpired, getAccountsNeedingRefresh, at clock t.         *)
(***************************************************************************)
\* A needsRefresh whose boundary is exclusive; C6 tells the two apart.
needsRefreshStrict(expires, t) ==
    IF expires = 0 THEN FALSE ELSE expires < t + bufferMs

needsRefresh(expires, t) ==
    IF expires = 0 THEN FALSE ELSE expires <= t + bufferMs

isExpired(expires, t) ==
    IF expires = 0 THEN FALSE ELSE expires <= t

AccountIds(accts) == 1..Len(accts)
AccountSeq(accts) == [i \in AccountIds(accts) |-> i]

getAccountsNeedingRefresh(mgr, accts, t) ==
    IF ~mgr THEN <<>>
    ELSE SelectSeq(AccountSeq(accts),
                   LAMBDA a : IF isExpired(accts[a], t) THEN FALSE
                              ELSE needsRefresh(accts[a], t))

\* A hasUrgentRefreshNeeds whose boundary is exclusive; C4 tells the two apart.
hasUrgentStrict(mgr, accts, t) ==
    IF ~mgr THEN FALSE
    ELSE \E a \in AccountIds(accts) : accts[a] # 0 /\ accts[a] < t + urgentThresholdMs

hasUrgentRefreshNeeds(mgr, accts, t) ==
    IF ~mgr THEN FALSE
    ELSE \E a \in AccountIds(accts) : accts[a] # 0 /\ accts[a] <= t + urgentThresholdMs

(***************************************************************************)
(* The handlers work on a copy q of the queue's state and return it.       *)
(* q.ok is FALSE when a bound of the model is exceeded; q.mf is TRUE when   *)
(* accountManager.getAccounts() throws during the handler.                 *)
(***************************************************************************)
Q(op) ==
    [st |-> state, tm |-> timers, ps |-> passes, ac |-> accounts,
     own |-> owner, sv |-> saved, ns |-> nStarts, ms |-> midStop, ai |-> awaitInitial,
     ok |-> TRUE,
     mf |-> FALSE,
     ev |-> NoEv(op)]

TimerIdsOf(tm) == {tm[i].id : i \in 1..Len(tm)}
FreePasses(ps) == {s \in PassIds : ps[s].origin = "none"}
Min(S) == CHOOSE x \in S : \A y \in S : x <= y
NewTimerId(tm) == Min(TimerIds \ TimerIdsOf(tm))

setTimeout(q, kind, delay) ==
    IF Len(q.tm) >= MaxTimers THEN [q EXCEPT !.ok = FALSE]
    ELSE [q EXCEPT !.tm = Append(@, [id |-> NewTimerId(q.tm), kind |-> kind]),
                   !.ev.kinds = Append(@, kind),
                   !.ev.delays = Append(@, delay)]

\* clearTimeout(h): the timer with handle h leaves the pending timers.
clearTimeout(tm, h) == SelectSeq(tm, LAMBDA t : t.id # h)

\* A scheduleNextCheck that does not look at isRunning; C34 tells the two apart.
scheduleNextCheckAlways(q, r) ==
    LET q1 == setTimeout(q, "periodic", addJitter(baseIntervalMs, r))
    IN IF ~q1.ok THEN q1
       ELSE [q1 EXCEPT !.st.intervalHandle = NewTimerId(q.tm)]

\* scheduleNextCheck: the self-rescheduling periodic timer.
scheduleNextCheck(q, r) ==
    IF ~q.st.isRunning THEN q
    ELSE LET d == addJitter(baseIntervalMs, r)
             q1 == setTimeout(q, "periodic", d)
         IN IF ~q1.ok THEN q1
            ELSE [q1 EXCEPT !.st.intervalHandle = NewTimerId(q.tm)]

\* A settlement after which nothing is rescheduled; C5 tells the two apart.
settledNoReschedule(q, origin, r) == [q EXCEPT !.ev.origin = origin]

\* What runs when the promise of a runRefreshCheck invocation settles:
\* the periodic tick's .finally(scheduleNextCheck); the other callers only log.
settled(q, origin, r) ==
    LET q1 == [q EXCEPT !.ev.origin = origin]
    IN IF origin = "periodic" THEN scheduleNextCheck(q1, r) ELSE q1

\* An end of the pass that leaves isRefreshing as it is; C33 tells the two
\* apart.
finishFlagKept(q, slot, r) ==
    settled([q EXCEPT !.ps[slot] = NoPass, !.ev.clearedBy = slot], q.ps[slot].origin, r)

\* The finally block of runRefreshCheck, then the settlement of its promise.
finish(q, slot, r) ==
    LET q1 == [q EXCEPT !.st.isRefreshing = FALSE,
                        !.ps[slot] = NoPass,
                        !.ev.clearedBy = slot,
                        !.ev.ownerWas = q.own,
                        !.own = 0]
    IN settled(q1, q.ps[slot].origin, r)

\* `if (!this.state.isRunning) break` at the head of each iteration.
stopRequested(q) == ~q.st.isRunning

\* The for loop of runRefreshCheck from its k-th candidate to the next await.
loop(q, slot, k, r) ==
    LET p == q.ps[slot]
    IN IF k > Len(p.cands) THEN finish(q, slot, r)
       ELSE IF stopRequested(q) THEN finish(q, slot, r)
       ELSE [q EXCEPT !.ps[slot].k = k,
                      !.ps[slot].phase = "refresh",
                      !.ps[slot].since = now,
                      !.ev.initiated = p.cands[k]]

\* A guard that lets every invocation through; C1 tells the two apart.
neverRefreshing(q) == FALSE

\* `if (this.state.isRefreshing) return` at the head of runRefreshCheck.
alreadyRefreshing(q) == q.st.isRefreshing

\* runRefreshCheck, called by `origin`, up to its first await or its return.
runRefreshCheck(q, origin, r) ==
    LET qc == [q EXCEPT !.ev.calls = @ + 1]
    IN IF alreadyRefreshing(qc) THEN settled([qc EXCEPT !.ev.skipped = TRUE], origin, r)
       ELSE IF ~hasManager THEN settled(qc, origin, r)
       ELSE IF FreePasses(qc.ps) = {} THEN [qc EXCEPT !.ok = FALSE]
       ELSE LET slot == Min(FreePasses(qc.ps))
                cands == getAccountsNeedingRefresh(hasManager, qc.ac, now)
                q1 == [qc EXCEPT !.st.isRefreshing = TRUE,
                                 !.st.lastCheckTime = now,
                                 !.own = slot,
                                 !.ev.began = slot,
                                 !.ev.cands = cands,
                                 !.ps[slot] = [origin |-> origin, cands |-> cands,
                                               k |-> 0, phase |-> "sync", since |-> 0]]
            IN IF qc.mf
               THEN finish([q1 EXCEPT !.ev.cands = <<>>, !.ps[slot].cands = <<>>,
                                      !.ev.outcome = "getAccountsThrows"], slot, r)
               ELSE IF Len(cands) = 0 THEN finish(q1, slot, r)
               ELSE loop(q1, slot, 1, r)

\* A start() without its two guards; C23 tells the two apart.
startUnguarded(q, r1, r2) ==
    IF q.ns >= MaxStarts THEN [q EXCEPT !.ok = FALSE]
    ELSE LET q1 == [q EXCEPT !.st.isRunning = TRUE, !.ns = @ + 1, !.ms = FALSE]
             q2 == IF hasUrgentRefreshNeeds(hasManager, q1.ac, now)
                   THEN runRefreshCheck([q1 EXCEPT !.ev.urgent = TRUE, !.ai = FALSE],
                                        "urgent", r1)
                   ELSE setTimeout([q1 EXCEPT !.ai = TRUE], "initial",
                                   addJitter(initialDelayMs, r1))
         IN IF ~q2.ok THEN q2 ELSE scheduleNextCheck(q2, r2)

\* start()
start(q, r1, r2) ==
    IF q.st.isRunning THEN q
    ELSE IF ~enabled THEN q
    ELSE IF q.ns >= MaxStarts THEN [q EXCEPT !.ok = FALSE]
    ELSE LET q1 == [q EXCEPT !.st.isRunning = TRUE, !.ns = @ + 1, !.ms = FALSE]
             q2 == IF hasUrgentRefreshNeeds(hasManager, q1.ac, now)
                   THEN runRefreshCheck([q1 EXCEPT !.ev.urgent = TRUE, !.ai = FALSE],
                                        "urgent", r1)
                   ELSE setTimeout([q1 EXCEPT !.ai = TRUE], "initial",
                                   addJitter(initialDelayMs, r1))
         IN IF ~q2.ok THEN q2 ELSE scheduleNextCheck(q2, r2)

\* stop()
stop(q) ==
    IF ~q.st.isRunning THEN q
    ELSE LET q1 == [q EXCEPT !.st.isRunning = FALSE,
                             !.ms = \E s \in PassIds : q.ps[s].origin # "none"]
             h == q1.st.intervalHandle
         IN IF h = 0 THEN q1
            ELSE [q1 EXCEPT !.tm = clearTimeout(@, h),
                            !.st.intervalHandle = 0,
                            !.ev.cancelled = Len(q.tm) - Len(clearTimeout(q.tm, h))]

\* The event loop takes the i-th pending timer off its list to run its callback.
\* A handle to a timer that has fired stays non-null and cancels nothing: -1.
fired(q, i) ==
    [q EXCEPT !.tm = clearTimeout(@, q.tm[i].id),
              !.st.intervalHandle = IF @ = q.tm[i].id THEN -1 ELSE @,
              !.ai = IF q.tm[i].kind = "initial" THEN FALSE ELSE @]

initialCallback(q, r) ==
    IF q.st.isRunning THEN runRefreshCheck(q, "initial", r) ELSE q

periodicCallback(q, r) == runRefreshCheck(q, "periodic", r)

\* AccountManager.updateFromAuth(account, refreshed)
updateFromAuth(accts, a, expires) == [accts EXCEPT ![a] = expires]

\* A success that goes on to the next candidate without awaiting saveToDisk();
\* C26 tells the two apart.
onRefreshedNoSave(q, slot, a) ==
    loop([q EXCEPT !.ac = updateFromAuth(@, a, q.ps[slot].since + expiresInSeconds * 1000),
                   !.st.refreshCount = @ + 1,
                   !.st.lastRefreshTime = now],
         slot, q.ps[slot].k + 1, 0)

\* The refresh of account a succeeded: the in-memory update, the counters,
\* and the pass awaits saveToDisk().
onRefreshed(q, slot, a) ==
    [q EXCEPT !.ac = updateFromAuth(@, a, q.ps[slot].since + expiresInSeconds * 1000),
              !.st.refreshCount = @ + 1,
              !.st.lastRefreshTime = now,
              !.ps[slot].phase = "save"]

\* A catch block that gives the pass up; C7 tells the two apart.
abortOnRefreshError(q, slot, r) ==
    finish([q EXCEPT !.st.errorCount = @ + 1], slot, r)

\* The refresh of the k-th candidate threw: the catch block, then the next one.
onRefreshError(q, slot, r) ==
    loop([q EXCEPT !.st.errorCount = @ + 1], slot, q.ps[slot].k + 1, r)

\* The await of refreshToken() settles for the pass in `slot`:
\*   "ok" with a refreshed token, "noop" with undefined, "throw" with an error;
\*   "updateThrows" with a refreshed token with which updateFromAuth throws.
afterRefresh(q, slot, outcome, r) ==
    LET p == q.ps[slot]
        a == p.cands[p.k]
        qe == [q EXCEPT !.ev.slot = slot, !.ev.acct = a, !.ev.outcome = outcome]
    IN CASE outcome = "ok" -> onRefreshed(qe, slot, a)
         [] outcome = "noop" -> loop(qe, slot, p.k + 1, r)
         [] OTHER -> onRefreshError(qe, slot, r)

\* A catch block that counts the failed save as an error; C8 tells the two apart.
countSaveError(q) == [q EXCEPT !.st.errorCount = @ + 1]

\* saveToDisk() failed: the empty catch block.
onSaveError(q) == q

\* The await of saveToDisk() settles: "saved" or "savefail", then the next candidate.
afterSave(q, slot, outcome, r) ==
    LET p == q.ps[slot]
        qe == [q EXCEPT !.ev.slot = slot, !.ev.acct = p.cands[p.k],
                        !.ev.outcome = outcome]
        q1 == IF outcome = "saved" THEN [qe EXCEPT !.sv = @ + 1] ELSE onSaveError(qe)
    IN loop(q1, slot, p.k + 1, r)

(***************************************************************************)
(* The actions.                                                            *)
(***************************************************************************)
\* The handler has run: q0 is the state it leaves.
Commit(q0) == \E q \in {q0} :
    /\ q.ok
    /\ state' = q.st
    /\ timers' = q.tm
    /\ passes' = q.ps
    /\ accounts' = q.ac
    /\ owner' = q.own
    /\ saved' = q.sv
    /\ nStarts' = q.ns
    /\ midStop' = q.ms
    /\ awaitInitial' = q.ai
    /\ ev' = q.ev

\* The accounts the manager is given: their expiry times lie at the thresholds.
AccountChoices ==
    {<<Now0 + urgentThresholdMs, Now0 + bufferMs>>,
     <<Now0 + urgentThresholdMs + 1, 0>>,
     <<Now0, Now0 + bufferMs + 1>>,
     <<Now0 + urgentThresholdMs, Now0 + urgentThresholdMs + 1>>}

InitQueue ==
    /\ now = Now0
    /\ enabled \in BOOLEAN
    /\ hasManager = FALSE
    /\ accounts = <<>>
    /\ state = [isRunning |-> FALSE, intervalHandle |-> 0, isRefreshing |-> FALSE,
                lastCheckTime |-> 0, lastRefreshTime |-> 0,
                refreshCount |-> 0, errorCount |-> 0]
    /\ timers = <<>>
    /\ passes = [s \in PassIds |-> NoPass]
    /\ owner = 0
    /\ saved = 0
    /\ nStarts = 0
    /\ midStop = FALSE
    /\ awaitInitial = FALSE
    /\ ev = NoEv("init")

SetAccountManager ==
    /\ ~hasManager
    /\ hasManager' = TRUE
    /\ \E f \in AccountChoices : accounts' = f
    /\ ev' = NoEv("setAccountManager")
    /\ UNCHANGED <<now, enabled, state, timers, passes, owner, saved,
                   nStarts, midStop, awaitInitial, tok, authCache, projectCache, xf, signatureStore, storeOps, thoughtOps, retryDelay, xg>>

Start ==
    /\ \E r1 \in RandSet, r2 \in RandSet, q \in {Q("start")} : Commit(start(q, r1, r2))
    /\ UNCHANGED <<now, enabled, hasManager, tok, authCache, projectCache, xf, signatureStore, storeOps, thoughtOps, retryDelay, xg>>

Stop ==
    /\ \E q \in {Q("stop")} : Commit(stop(q))
    /\ UNCHANGED <<now, enabled, hasManager, tok, authCache, projectCache, xf, signatureStore, storeOps, thoughtOps, retryDelay, xg>>

\* The i-th pending timer may be the next to fire.  An initial-delay timer lasts
\* at most 3.3 s and a periodic one at least 0.9 * checkIntervalSeconds, so a
\* periodic timer fires after every initial-delay timer created before it.
MayFire(i) ==
    timers[i].kind = "periodic" =>
        \A j \in 1..(i - 1) : timers[j].kind # "initial"

InitialTimerFires ==
    /\ \E i \in 1..Len(timers) :
          /\ timers[i].kind = "initial" /\ MayFire(i)
          /\ \E r \in RandSet, f \in BOOLEAN :
                \E q \in {[fired(Q("initialTick"), i) EXCEPT !.mf = f]} :
                   Commit(initialCallback(q, r))
    /\ UNCHANGED <<now, enabled, hasManager, tok, authCache, projectCache, xf, signatureStore, storeOps, thoughtOps, retryDelay, xg>>

PeriodicTimerFires ==
    /\ \E i \in 1..Len(timers) :
          /\ timers[i].kind = "periodic" /\ MayFire(i)
          /\ \E r \in RandSet, f \in BOOLEAN :
                \E q \in {[fired(Q("periodicTick"), i) EXCEPT !.mf = f]} :
                   Commit(periodicCallback(q, r))
    /\ UNCHANGED <<now, enabled, hasManager, tok, authCache, projectCache, xf, signatureStore, storeOps, thoughtOps, retryDelay, xg>>

RefreshSettles ==
    /\ \E slot \in PassIds, outcome \in {"ok", "noop", "throw", "updateThrows"},
          r \in RandSet :
          /\ passes[slot].phase = "refresh"
          /\ outcome \in {"throw", "updateThrows"} => state.errorCount < MaxErrors
          /\ \E q \in {Q("refreshSettles")} : Commit(afterRefresh(q, slot, outcome, r))
    /\ UNCHANGED <<now, enabled, hasManager, tok, authCache, projectCache, xf, signatureStore, storeOps, thoughtOps, retryDelay, xg>>

SaveSettles ==
    /\ \E slot \in PassIds, outcome \in {"saved", "savefail"}, r \in RandSet :
          /\ passes[slot].phase = "save"
          /\ \E q \in {Q("saveSettles")} : Commit(afterSave(q, slot, outcome, r))
    /\ UNCHANGED <<now, enabled, hasManager, tok, authCache, projectCache, xf, signatureStore, storeOps, thoughtOps, retryDelay, xg>>

\* The clock moves on to an instant at which an account crosses one of its
\* thresholds, or is one millisecond past it.
TimeTargets ==
    {accounts[a] - x + e : a \in {y \in AccountIds(accounts) : accounts[y] # 0},
                           x \in {0, urgentThresholdMs, bufferMs}, e \in {0, 1}}

AdvanceTime ==
    /\ \E t \in TimeTargets :
          /\ t > now /\ t <= MaxNow
          /\ now' = t
    /\ ev' = NoEv("advanceTime")
    /\ UNCHANGED <<enabled, hasManager, accounts, state, timers, passes, owner, saved,
                   nStarts, midStop, awaitInitial, tok, authCache, projectCache, xf, signatureStore, storeOps, thoughtOps, retryDelay, xg>>

(***************************************************************************)
(* refreshAccessToken (plugin/token.ts).                                   *)
(*                                                                         *)
(* A refresh blob is the sequence of its parts, an absent string is "".    *)
(* The token endpoint answers each attempt with a response of Responses.   *)
(***************************************************************************)
UNDEF == "undefined"

\* plugin/auth: parseRefreshParts, formatRefreshParts, calculateTokenExpiry.
parseRefreshParts(refresh) ==
    [refreshToken |-> refresh[1], projectId |-> refresh[2], managedProjectId |-> refresh[3]]

formatRefreshParts(parts) ==
    <<parts.refreshToken, parts.projectId, parts.managedProjectId>>

calculateTokenExpiry(startTime, expires_in) == startTime + expires_in * 1000

\* plugin/cache and plugin/project: the collaborators that hold what is cached.
storeCachedAuth(cache, auth) ==
    {e \in cache : e.refresh # auth.refresh} \cup {auth}

clearCachedAuth(cache, refresh) == {e \in cache : e.refresh # refresh}

invalidateProjectContextCache(cache, refresh) == cache \ {refresh}

\* The auth value refreshAccessToken is called with, and what is cached then.
Auth0(refreshToken) ==
    [type |-> "oauth", access |-> "at0", expires |-> Now0,
     refresh |-> <<refreshToken, "p", "m">>]

OtherBlob == <<"rtX", "p", "m">>
Cache0(auth) ==
    {auth, [type |-> "oauth", access |-> "atX", expires |-> Now0, refresh |-> OtherBlob]}

\* The errors: a classified OAuth error, the TypeError fetch rejects with when
\* the network fails, another Error (one of a fetch layer, whose message
\* names "fetch", or one of response.json()), and the TypeError thrown by
\* `payload.access_token` when the JSON body of a success response is null.
\* `network` tells whether the error is a failure of the network transport.
AntigravityTokenRefreshError(code, status, statusText) ==
    [type |-> "AntigravityTokenRefreshError", code |-> code, status |-> status,
     statusText |-> statusText, mentionsFetch |-> FALSE, network |-> FALSE]

TypeError == [type |-> "TypeError", code |-> UNDEF, status |-> 0,
              statusText |-> "", mentionsFetch |-> FALSE, network |-> TRUE]

Error(mentionsFetch) == [type |-> "Error", code |-> UNDEF, status |-> 0,
                         statusText |-> "", mentionsFetch |-> mentionsFetch,
                         network |-> mentionsFetch]

NullPayloadTypeError == [type |-> "TypeError", code |-> UNDEF, status |-> 0,
                         statusText |-> "", mentionsFetch |-> FALSE, network |-> FALSE]

NoError == [type |-> "none", code |-> UNDEF, status |-> 0,
            statusText |-> "", mentionsFetch |-> FALSE, network |-> FALSE]

\* The answers of the endpoint to one attempt: fetch or response.json()
\* rejects ("throw"), an error status, a success status with a JSON object,
\* a success status whose JSON body is null ("null").
\* The bodies of an error response: none, a text that is not JSON,
\* {"error": code}, {"error": {"status": .., "code": ..}}.
Bodies ==
    {[shape |-> "none"], [shape |-> "text"]}
    \cup {[shape |-> "string", error |-> c] :
            c \in {"invalid_grant", "invalid_client", "server_error"}}
    \cup {[shape |-> "object", status |-> st, code |-> c] :
            st \in {UNDEF, "invalid_grant"}, c \in {UNDEF, "invalid_client"}}

\* An access_token that is a number, and typeof x === "string".
NotAString == "#1"
isString(x) == x # NotAString

Responses ==
    {[kind |-> "throw", error |-> e] : e \in {TypeError, Error(TRUE), Error(FALSE)}}
    \cup {[kind |-> "http", ok |-> FALSE, status |-> st, body |-> b] :
            st \in {400, 429, 503}, b \in Bodies}
    \cup {[kind |-> "http", ok |-> TRUE, access_token |-> a, expires_in |-> x,
           refresh_token |-> rt] :
            a \in {UNDEF, "at1", NotAString}, x \in {0, 1800}, rt \in {UNDEF, "rt1"}}
    \cup {[kind |-> "null"]}

StatusText(status) ==
    CASE status = 400 -> "Bad Request"
      [] status = 429 -> "Too Many Requests"
      [] status = 503 -> "Service Unavailable"
      [] OTHER -> ""

MinOf(a, b) == IF a <= b THEN a ELSE b

\* A delay whose exponential growth is not capped; C22 tells the two apart.
getRetryDelayUncapped(attempt, r) ==
    (INITIAL_RETRY_DELAY_MS * 2 ^ attempt * (8 * RandDen + 4 * r)) \div (10 * RandDen)

\* getRetryDelay (r is the draw of Math.random(), as r / RandDen).
getRetryDelay(attempt, r) ==
    LET exponentialDelay == INITIAL_RETRY_DELAY_MS * 2 ^ attempt
        cappedDelay == MinOf(exponentialDelay, MAX_RETRY_DELAY_MS)
    IN (cappedDelay * (8 * RandDen + 4 * r)) \div (10 * RandDen)

isRetryableError(error) ==
    IF error.type = "AntigravityTokenRefreshError"
    THEN IF error.code = "invalid_grant" \/ error.code = "invalid_client" THEN FALSE
         ELSE error.status >= 500 \/ error.status = 429
    ELSE error.type = "TypeError" \/ (error.type = "Error" /\ error.mentionsFetch)

\* The code parseOAuthErrorPayload finds in the body of an error response.
parseOAuthErrorPayload(body) ==
    CASE body.shape = "string" -> body.error
      [] body.shape = "object" -> IF body.status # UNDEF THEN body.status ELSE body.code
      [] OTHER -> UNDEF

\* A transient failure of the taxonomy: a server error or a rate limit that
\* carries no permanent credential code, or a failure of the network transport.
\* A success-status answer of the endpoint without a string access_token.
LacksAccessToken(resp) ==
    \/ resp.kind = "null"
    \/ /\ resp.kind = "http" /\ resp.ok
       /\ resp.access_token \in {UNDEF, NotAString}

TransientFailure(error) ==
    \/ /\ error.type = "AntigravityTokenRefreshError"
       /\ error.status >= 500 \/ error.status = 429
       /\ error.code \notin {"invalid_grant", "invalid_client"}
    \/ error.network

\* A handler of the refresher works on a copy t of its state and the caches.
T == [tok |-> tok, ac |-> authCache, pc |-> projectCache]

\* A test that finds no error code to be a revocation; C10 tells the two apart.
neverRevoked(code) == FALSE

\* `if (code === "invalid_grant")` in attemptTokenRefresh.
isRevoked(code) == code = "invalid_grant"

\* Refreshed parts that always take the refresh token of the payload; C28
\* tells the two apart.
refreshedPartsOverwritten(parts, refresh_token) ==
    [refreshToken |-> refresh_token,
     projectId |-> parts.projectId,
     managedProjectId |-> parts.managedProjectId]

\* refreshedParts: payload.refresh_token ?? parts.refreshToken, the project
\* ids kept.
refreshedParts(parts, refresh_token) ==
    [refreshToken |-> IF refresh_token # UNDEF THEN refresh_token
                      ELSE parts.refreshToken,
     projectId |-> parts.projectId,
     managedProjectId |-> parts.managedProjectId]

\* attemptTokenRefresh from the answer of the endpoint on: the value it
\* returns or the error it throws, and the caches it leaves.
attemptTokenRefresh(t, resp) ==
    LET auth == t.tok.auth
        parts == parseRefreshParts(auth.refresh)
    IN IF resp.kind = "throw" THEN [t |-> t, threw |-> TRUE, error |-> resp.error]
       ELSE IF resp.kind = "null"
       THEN [t |-> t, threw |-> TRUE, error |-> NullPayloadTypeError]
       ELSE IF ~resp.ok
       THEN LET code == parseOAuthErrorPayload(resp.body)
                t1 == IF isRevoked(code)
                      THEN [t EXCEPT !.pc = invalidateProjectContextCache(@, auth.refresh),
                                     !.ac = clearCachedAuth(@, auth.refresh),
                                     !.tok.log = @ \o <<"invalidateProjectContextCache",
                                                        "clearCachedAuth">>]
                      ELSE t
            IN [t |-> t1, threw |-> TRUE,
                error |-> AntigravityTokenRefreshError(code, resp.status,
                                                       StatusText(resp.status))]
       ELSE IF resp.access_token = UNDEF \/ ~isString(resp.access_token)
       THEN [t |-> t, threw |-> TRUE,
             error |-> AntigravityTokenRefreshError(UNDEF, 500, "Invalid Response")]
       ELSE LET expires_in == IF resp.expires_in <= 0 THEN expiresInSeconds
                              ELSE resp.expires_in
            IN [t |-> t, threw |-> FALSE,
                value |-> [auth EXCEPT !.access = resp.access_token,
                                       !.expires = calculateTokenExpiry(now, expires_in),
                                       !.refresh = formatRefreshParts(
                                           refreshedParts(parts, resp.refresh_token))]]

Idle(auth) ==
    [pc |-> "idle", auth |-> auth, attempt |-> 0, attempts |-> 0, sleeps |-> <<>>,
     lastError |-> NoError, result |-> [kind |-> "none"], only503 |-> TRUE, transient |-> TRUE,
     noToken |-> TRUE, resp |-> [kind |-> "none"], log |-> <<>>]

return(t, value) ==
    [t EXCEPT !.tok.pc = "done", !.tok.result = value, !.tok.log = Append(@, "return")]

throw(t, error) ==
    [t EXCEPT !.tok.pc = "done", !.tok.result = [kind |-> "raise", error |-> error],
              !.tok.log = Append(@, "throw")]

undefined == [kind |-> "undefined"]

\* An end of the loop that raises whatever the last error is; C12 tells the
\* two apart.
afterLoopRaise(t) == throw(t, t.tok.lastError)

\* What follows the retry loop: all retries are exhausted.
afterLoop(t) ==
    IF t.tok.lastError.type = "AntigravityTokenRefreshError"
    THEN throw(t, t.tok.lastError)
    ELSE return(t, undefined)

\* A loop that sleeps once more before it gives up; C9 tells the two apart.
exhaustedLate(attempt) == attempt > MAX_RETRIES

\* `if (attempt >= MAX_RETRIES) break`
exhausted(attempt) == attempt >= MAX_RETRIES

\* The head of the for loop: the next attempt, or the end of the loop.
forLoop(t, attempt) ==
    IF attempt <= MAX_RETRIES
    THEN [t EXCEPT !.tok.attempt = attempt, !.tok.attempts = @ + 1, !.tok.pc = "fetch",
                   !.tok.log = <<>>]
    ELSE afterLoop(t)

\* refreshAccessToken up to its first await.
refreshAccessToken(t) ==
    LET parts == parseRefreshParts(t.tok.auth.refresh)
    IN IF parts.refreshToken = "" THEN return(t, undefined)
       ELSE forLoop(t, 0)

\* A success that is returned without being cached; C14 tells the two apart.
onSuccessNoStore(t, updatedAuth) ==
    return(t, [kind |-> "value", value |-> updatedAuth])

\* attemptTokenRefresh returned updatedAuth: cache and return.
onSuccess(t, updatedAuth) ==
    return([t EXCEPT !.ac = storeCachedAuth(@, updatedAuth),
                     !.pc = invalidateProjectContextCache(@, t.tok.auth.refresh),
                     !.tok.log = @ \o <<"storeCachedAuth",
                                        "invalidateProjectContextCache">>],
           [kind |-> "value", value |-> updatedAuth])

\* A non-retryable error that is raised whatever it is; C13 tells the two apart.
giveUpRaise(t, error) == throw(t, error)

\* The error is not retryable: throw a classified error, swallow another one.
giveUp(t, error) ==
    IF error.type = "AntigravityTokenRefreshError"
    THEN throw(t, error)
    ELSE return(t, undefined)

\* The await of attemptTokenRefresh settles: the rest of the loop body.
afterAttempt(t, resp, r) ==
    LET res == attemptTokenRefresh(t, resp)
        t1 == [res.t EXCEPT !.tok.only503 =
                   @ /\ resp.kind = "http" /\ ~resp.ok /\ resp.status = 503,
                            !.tok.transient =
                   @ /\ res.threw /\ TransientFailure(res.error),
                            !.tok.noToken = @ /\ LacksAccessToken(resp),
                            !.tok.resp = resp]
    IN IF ~res.threw
       THEN onSuccess(t1, res.value)
       ELSE LET t2 == [t1 EXCEPT !.tok.lastError = res.error]
            IN IF ~isRetryableError(res.error)
               THEN giveUp(t2, res.error)
               ELSE IF exhausted(t2.tok.attempt) THEN afterLoop(t2)
               ELSE [t2 EXCEPT !.tok.pc = "sleep",
                               !.tok.sleeps = Append(@, getRetryDelay(t2.tok.attempt, r)),
                               !.tok.log = Append(@, "sleep")]

\* The sleep is over: attempt++ and the head of the loop.
afterSleep(t) == forLoop(t, t.tok.attempt + 1)

CommitToken(t0) == \E t \in {t0} :
    /\ tok' = t.tok
    /\ authCache' = t.ac
    /\ projectCache' = t.pc
    /\ UNCHANGED <<now, enabled, hasManager, accounts, state, timers, passes, owner,
                   saved, nStarts, midStop, awaitInitial, ev, xf, signatureStore, storeOps, thoughtOps, retryDelay, xg>>

(***************************************************************************)
(* The streaming transformer (plugin/core/streaming/transformer.ts).       *)
(*                                                                         *)
(* A stream is a sequence of bytes, a text a sequence of characters.  The  *)
(* pieces of an SSE line are written with one symbol each: "D" is the      *)
(* prefix data:, "{" and "}" are the braces of the JSON record, "R" is the *)
(* key of its response field and the symbols after it are the response:   *)
(* "0" a response that is no object, "b" the head of a flat content-block  *)
(* list (shape B), and otherwise the parts of the candidates (shape A),    *)
(* with "|" between two candidates and "_" a candidate without content.    *)
(* The bytes c3 a9 are the UTF-8 encoding of the one character e9.         *)
(***************************************************************************)
MaxLines == 2
MaxStreams == 2

NL == "\n"
ReplacementChar == "fffd"

RECURSIVE decode(_, _)
\* TextDecoder.decode(bytes, {stream: true}); pending is the lead byte of a
\* character whose continuation byte has not arrived.
decode(pending, bytes) ==
    IF bytes = <<>>
    THEN [text |-> <<>>, pending |-> pending]
    ELSE LET b == Head(bytes)
             one == IF pending # <<>>
                    THEN IF b = "a9" THEN [text |-> <<"e9">>, pending |-> <<>>]
                         ELSE IF b = "c3"
                         THEN [text |-> <<ReplacementChar>>, pending |-> <<"c3">>]
                         ELSE [text |-> <<ReplacementChar, b>>, pending |-> <<>>]
                    ELSE IF b = "c3" THEN [text |-> <<>>, pending |-> <<"c3">>]
                         ELSE IF b = "a9"
                         THEN [text |-> <<ReplacementChar>>, pending |-> <<>>]
                         ELSE [text |-> <<b>>, pending |-> <<>>]
             rest == decode(one.pending, Tail(bytes))
         IN [text |-> one.text \o rest.text, pending |-> rest.pending]

\* U+FEFF, and the bytes ef bb bf of its UTF-8 encoding taken as one symbol.
BOM == "feff"

\* new TextDecoder() has ignoreBOM false: a byte order mark in front of the
\* stream, where pos bytes have been decoded so far, is left out of the text.
stripBOM(pos, bytes) ==
    IF pos = 0 /\ bytes # <<>> /\ Head(bytes) = BOM THEN Tail(bytes) ELSE bytes

\* TextDecoder.decode() at the end of the stream.
decodeEnd(pending) == IF pending # <<>> THEN <<ReplacementChar>> ELSE <<>>

RECURSIVE encode(_)
\* TextEncoder.encode(text)
encode(text) ==
    IF text = <<>> THEN <<>>
    ELSE (IF Head(text) = "e9" THEN <<"c3", "a9">>
          ELSE IF Head(text) = ReplacementChar THEN <<"ef", "bf", "bd">>
          ELSE <<Head(text)>>) \o encode(Tail(text))

RECURSIVE split(_, _)
\* String.prototype.split(separator)
split(text, separator) ==
    IF text = <<>> THEN << <<>> >>
    ELSE LET rest == split(Tail(text), separator)
         IN IF Head(text) = separator
            THEN << <<>> >> \o rest
            ELSE << <<Head(text)>> \o Head(rest) >> \o Tail(rest)

RECURSIVE trimStart(_)
trimStart(text) ==
    IF text # <<>> /\ Head(text) = " " THEN trimStart(Tail(text)) ELSE text

RECURSIVE trimEnd(_)
trimEnd(text) ==
    IF text # <<>> /\ text[Len(text)] = " "
    THEN trimEnd(SubSeq(text, 1, Len(text) - 1))
    ELSE text

\* String.prototype.trim()
trim(text) == trimEnd(trimStart(text))

\* line.startsWith('data:')
startsWithData(line) == line # <<>> /\ Head(line) = "D"

\* The parts of a candidate and the blocks of a content list.
PartSymbols == {"A", "B", "e9", "T", "S", "X"}

\* p.thought === true || p.type === 'thinking'
isThought(p) == p \in {"A", "B", "e9", "X"}

\* p.text || p.thinking || ''
textOf(p) ==
    IF p = "X" THEN <<"C">> ELSE IF p = "S" THEN <<>> ELSE <<p>>

\* p.thoughtSignature, b.signature
signatureOf(p) ==
    IF p = "S" THEN "s1" ELSE IF p = "X" THEN "s2" ELSE UNDEF

AllIn(sq, S) == \A i \in 1..Len(sq) : sq[i] \in S

\* A response as the callbacks see it; calls lists the callbacks it went through.
Response(shape, candidates, content) ==
    [shape |-> shape, candidates |-> candidates, content |-> content, calls |-> <<>>]

NoResponse == Response("none", <<>>, <<>>)

candidateOf(symbols) ==
    IF symbols = <<"_">>
    THEN [content |-> FALSE, parts |-> <<>>]
    ELSE [content |-> TRUE, parts |-> symbols]

\* JSON.parse(json) as { response?: unknown }
JSONparse(json) ==
    LET failed == [ok |-> FALSE, hasResponse |-> FALSE, response |-> NoResponse]
        inner == SelectSeq(SubSeq(json, 2, Len(json) - 1), LAMBDA c : c # " ")
        r == Tail(inner)
        cands == split(r, "|")
    IN IF Len(json) < 2 \/ json[1] # "{" \/ json[Len(json)] # "}" THEN failed
       ELSE IF inner = <<>>
       THEN [ok |-> TRUE, hasResponse |-> FALSE, response |-> NoResponse]
       ELSE IF inner[1] # "R" \/ r = <<>> THEN failed
       ELSE IF r = <<"0">>
       THEN [ok |-> TRUE, hasResponse |-> TRUE, response |-> Response("scalar", <<>>, <<>>)]
       ELSE IF r[1] = "b"
       THEN IF AllIn(Tail(r), PartSymbols)
            THEN [ok |-> TRUE, hasResponse |-> TRUE,
                  response |-> Response("B", <<>>, Tail(r))]
            ELSE failed
       ELSE IF \A i \in 1..Len(cands) :
                  cands[i] = <<"_">> \/ AllIn(cands[i], PartSymbols)
       THEN [ok |-> TRUE, hasResponse |-> TRUE,
             response |-> Response("A", [i \in 1..Len(cands) |-> candidateOf(cands[i])], <<>>)]
       ELSE failed

RECURSIVE join(_, _)
join(seqs, separator) ==
    IF Len(seqs) = 0 THEN <<>>
    ELSE IF Len(seqs) = 1 THEN seqs[1]
    ELSE seqs[1] \o <<separator>> \o join(Tail(seqs), separator)

RECURSIVE wrap(_, _)
wrap(calls, text) ==
    IF calls = <<>> THEN text
    ELSE wrap(Tail(calls), <<Head(calls), "(">> \o text \o <<")">>)

\* JSON.stringify(response)
JSONstringify(response) ==
    wrap(response.calls,
         IF response.shape = "scalar" THEN <<"0">>
         ELSE IF response.shape = "B" THEN <<"b">> \o response.content
         ELSE join([i \in 1..Len(response.candidates) |->
                       IF response.candidates[i].content
                       THEN response.candidates[i].parts
                       ELSE <<"_">>], "|"))

\* callbacks.onInjectDebug(response, debugText), a function of the caller.
onInjectDebug(response, debugText) ==
    [response EXCEPT !.calls = Append(@, "onInjectDebug")]

\* callbacks.transformThinkingParts(response), a function of the caller.
transformThinkingParts(response) ==
    [response EXCEPT !.calls = Append(@, "transformThinkingParts")]

\* A Map without entries, map.get(key) ?? '', and map.set(key, value).
EmptyMap == [k \in {} |-> <<>>]
getOrEmpty(map, key) == IF key \in DOMAIN map THEN map[key] ELSE <<>>
mapSet(map, key, value) ==
    [k \in DOMAIN map \cup {key} |-> IF k = key THEN value ELSE map[k]]

\* What a transformer works on: its ThoughtBuffer, the SignatureStore, and
\* the calls of signatureStore.set it has made.
Caches(thoughtBuffer, store, writes) ==
    [thoughtBuffer |-> thoughtBuffer, store |-> store, writes |-> writes]

\* onCacheSignature?.(key, text, signature); signatureStore.set(key, {text, signature})
cacheSignature(c, key, text, signature) ==
    [c EXCEPT !.store = mapSet(@, key, [text |-> text, signature |-> signature]),
              !.writes = Append(@, [key |-> key, text |-> text, signature |-> signature])]

\* A signature that is stored with no regard to the accumulated text; C18
\* tells the two apart.
visitPartUnpaired(c, index, p, key) ==
    IF signatureOf(p) # UNDEF
    THEN cacheSignature(c, key, textOf(p), signatureOf(p))
    ELSE c

\* The body of content.parts.forEach for the part p of the candidate index.
visitPart(c, index, p, key) ==
    LET c1 == IF isThought(p) /\ textOf(p) # <<>>
              THEN [c EXCEPT !.thoughtBuffer =
                        mapSet(@, index, getOrEmpty(@, index) \o textOf(p))]
              ELSE c
        fullText == getOrEmpty(c1.thoughtBuffer, index)
    IN IF signatureOf(p) # UNDEF /\ fullText # <<>>
       THEN cacheSignature(c1, key, fullText, signatureOf(p))
       ELSE c1

RECURSIVE visitParts(_, _, _, _)
visitParts(c, index, parts, key) ==
    IF parts = <<>> THEN c
    ELSE visitParts(visitPart(c, index, Head(parts), key), index, Tail(parts), key)

RECURSIVE visitCandidates(_, _, _, _)
\* resp.candidates.forEach((candidate, index) => ...), from the given index on.
visitCandidates(c, index, candidates, key) ==
    IF candidates = <<>> THEN c
    ELSE visitCandidates(IF Head(candidates).content
                         THEN visitParts(c, index, Head(candidates).parts, key)
                         ELSE c,
                         index + 1, Tail(candidates), key)

RECURSIVE visitBlocksOwnText(_, _, _, _)
\* A visit of the blocks that pairs a signature with the text of the last
\* thinking block alone; C30 tells the two apart.
visitBlocksOwnText(c, thinkingText, blocks, key) ==
    IF blocks = <<>> THEN c
    ELSE LET b == Head(blocks)
             text == IF isThought(b) THEN textOf(b) ELSE thinkingText
         IN visitBlocksOwnText(IF signatureOf(b) # UNDEF /\ text # <<>>
                               THEN cacheSignature(c, key, text, signatureOf(b))
                               ELSE c,
                               text, Tail(blocks), key)

RECURSIVE visitBlocks(_, _, _, _)
\* resp.content.forEach((block) => ...) with the thinkingText accumulated so far.
visitBlocks(c, thinkingText, blocks, key) ==
    IF blocks = <<>> THEN c
    ELSE LET b == Head(blocks)
             text == IF isThought(b) THEN thinkingText \o textOf(b) ELSE thinkingText
         IN visitBlocks(IF signatureOf(b) # UNDEF /\ text # <<>>
                        THEN cacheSignature(c, key, text, signatureOf(b))
                        ELSE c,
                        text, Tail(blocks), key)

cacheThinkingSignaturesFromResponse(c, response, key) ==
    IF response.shape = "A" THEN visitCandidates(c, 0, response.candidates, key)
    ELSE IF response.shape = "B" THEN visitBlocks(c, <<>>, response.content, key)
    ELSE c

\* The outcome of transformSseLine: the line to emit, the caches, the
\* injected flag of debugState, and whether this call injected the debug text.
LineResult(line, c, injected, didInject) ==
    [line |-> line, c |-> c, injected |-> injected, didInject |-> didInject]

\* A debug injection that pays no regard to the injected flag; C19 tells the
\* two apart.
alwaysInject(options, injected) ==
    options.debugText # "" /\ options.onInjectDebug

\* options.debugText && callbacks.onInjectDebug && !debugState.injected
shouldInject(options, injected) ==
    options.debugText # "" /\ options.onInjectDebug /\ ~injected

\* A line handler that drops what it cannot transform; C17 tells the two apart.
passThroughDropped(line, c, injected) == LineResult(<<>>, c, injected, FALSE)

\* return line
passThrough(line, c, injected) == LineResult(line, c, injected, FALSE)

transformSseLine(line, c, options, injected) ==
    IF ~startsWithData(line) THEN passThrough(line, c, injected)
    ELSE LET json == trim(Tail(line))
             parsed == JSONparse(json)
         IN IF json = <<>> THEN passThrough(line, c, injected)
            ELSE IF ~parsed.ok \/ ~parsed.hasResponse THEN passThrough(line, c, injected)
            ELSE LET c1 == IF options.cacheSignatures /\ options.signatureSessionKey # ""
                           THEN cacheThinkingSignaturesFromResponse(
                                    c, parsed.response, options.signatureSessionKey)
                           ELSE c
                     inject == shouldInject(options, injected)
                     r1 == IF inject
                           THEN onInjectDebug(parsed.response, options.debugText)
                           ELSE parsed.response
                     r2 == IF options.transformThinkingParts
                           THEN transformThinkingParts(r1)
                           ELSE r1
                 IN LineResult(<<"D", " ">> \o JSONstringify(r2), c1,
                               injected \/ inject, inject)

\* A one-shot transform that rewrites no line; C35 tells the two apart.
payloadLineUntouched(line, withTransform) == line

\* The body of the map of transformStreamingPayload, for one line.
transformPayloadLine(line, withTransform) ==
    IF ~startsWithData(line) THEN line
    ELSE LET json == trim(Tail(line))
             parsed == JSONparse(json)
         IN IF json = <<>> THEN line
            ELSE IF parsed.ok /\ parsed.hasResponse
            THEN <<"D", " ">> \o JSONstringify(IF withTransform
                                               THEN transformThinkingParts(parsed.response)
                                               ELSE parsed.response)
            ELSE line

\* transformStreamingPayload(payload, transformThinkingParts)
transformStreamingPayload(payload, withTransform) ==
    LET lines == split(payload, NL)
    IN join([i \in 1..Len(lines) |-> transformPayloadLine(lines[i], withTransform)], NL)

\* A transformer as createStreamingTransformer returns it, for the stream
\* input and the options; n counts the transformers created.  out is what it
\* has enqueued, pos the bytes it has been fed, trace the lines it has
\* handled, and midChar whether a chunk has ended inside a character.
newTransformer(n, input, options) ==
    [n |-> n, input |-> input, options |-> options, pos |-> 0,
     pending |-> <<>>, buffer |-> <<>>, thoughtBuffer |-> EmptyMap,
     injected |-> FALSE, closed |-> FALSE,
     out |-> <<>>, writes |-> <<>>, trace |-> <<>>, midChar |-> FALSE]

\* The transformer and the store, as a handler reads and returns them.
X == [x |-> xf, store |-> signatureStore]

\* One line goes through transformSseLine and is enqueued, with the terminator
\* given.
emitLine(s, line, terminator) ==
    LET res == transformSseLine(line,
                   Caches(s.x.thoughtBuffer, s.store, s.x.writes),
                   s.x.options, s.x.injected)
    IN [x |-> [s.x EXCEPT
                 !.thoughtBuffer = res.c.thoughtBuffer,
                 !.writes = res.c.writes,
                 !.injected = res.injected,
                 !.out = @ \o encode(res.line \o terminator),
                 !.trace = Append(@, [line |-> line, out |-> res.line,
                                      didInject |-> res.didInject,
                                      terminator |-> terminator])],
        store |-> res.c.store]

RECURSIVE emitLines(_, _)
\* for (const line of lines) ...
emitLines(s, lines) ==
    IF lines = <<>> THEN s
    ELSE emitLines(emitLine(s, Head(lines), <<NL>>), Tail(lines))

\* A carry-over that is always emptied; C16 tells the two apart.
noCarryOver(lines) == <<>>

\* buffer = lines.pop() || ''
carryOver(lines) == lines[Len(lines)]

\* transform(chunk, controller)
transform(s, chunk) ==
    LET d == decode(s.x.pending, stripBOM(s.x.pos, chunk))
        lines == split(s.x.buffer \o d.text, NL)
    IN emitLines([s EXCEPT !.x.pending = d.pending,
                           !.x.midChar = @ \/ d.pending # <<>>,
                           !.x.buffer = carryOver(lines),
                           !.x.pos = @ + Len(chunk)],
                 SubSeq(lines, 1, Len(lines) - 1))

\* A flush that drops what is left in the buffer; C29 tells the two apart.
flushDropped(s) == [s EXCEPT !.x.pending = <<>>, !.x.closed = TRUE]

\* flush(controller)
flush(s) ==
    LET buffer == s.x.buffer \o decodeEnd(s.x.pending)
        s1 == [s EXCEPT !.x.pending = <<>>, !.x.buffer = buffer, !.x.closed = TRUE]
    IN IF buffer # <<>> THEN emitLine(s1, buffer, <<>>) ELSE s1

\* The whole input fed as a single chunk to a new transformer.
SingleChunk(input, options, store) ==
    flush(transform([x |-> newTransformer(0, input, options), store |-> store], input))

\* The lines a stream is made of.
SampleLines ==
    { <<"e">>,
      <<"D", " ">>,
      <<"D", "{", "R", "c3", "a9">>,
      <<"D", "{", "}">>,
      <<"D", "{", "R", "A", "B", "S", "|", "T", "}">>,
      <<"D", " ", "{", "R", "S", "|", "_", "|", "c3", "a9", "X", "}">>,
      <<"D", "{", "R", "b", "S", "A", "S", "}">>,
      <<"D", "{", "R", "b", "A", "X", "T", "S", "}">>,
      <<"D", "{", "R", "0", "}">>,
      <<"D", "{", "R", "X", "}">> }

\* The streams: up to MaxLines lines, the last one terminated or not.
Streams ==
    UNION {{join(ls, NL) \o t : ls \in [1..n -> SampleLines], t \in {<<>>, <<NL>>}}
           : n \in 0..MaxLines}

Options(cacheSignatures, signatureSessionKey, debugText, withInjectDebug, withTransform) ==
    [cacheSignatures |-> cacheSignatures, signatureSessionKey |-> signatureSessionKey,
     debugText |-> debugText, onInjectDebug |-> withInjectDebug,
     transformThinkingParts |-> withTransform]

OptionSets ==
    { Options(FALSE, "k", "", TRUE, TRUE),
      Options(TRUE, "k", "dbg", TRUE, TRUE),
      Options(TRUE, "", "dbg", FALSE, FALSE),
      Options(TRUE, "k", "", FALSE, FALSE) }

\* A new ThoughtBuffer, of which no call has been made.
NoThoughtOps ==
    [buffer |-> EmptyMap, before |-> EmptyMap, op |-> "none", index |-> 0,
     text |-> <<>>, got |-> <<>>]

\* getRetryDelay has not been called.
NoRetryDelay == [called |-> FALSE, attempt |-> 0, r |-> 0, delay |-> 0]

\* No call of the store has been made.
NoStoreOps == [setAt |-> EmptyMap, op |-> "none", key |-> "", found |-> FALSE]

\* No transformer has been created.
NoStream == newTransformer(0, <<>>, Options(FALSE, "", "", FALSE, FALSE))

\* No token refresh is under way.
Init ==
    /\ InitQueue
    /\ tok = Idle(Auth0("rt0"))
    /\ authCache = Cache0(Auth0("rt0"))
    /\ projectCache = {Auth0("rt0").refresh, OtherBlob}
    /\ xf = NoStream
    /\ signatureStore = EmptyMap
    /\ storeOps = NoStoreOps
    /\ thoughtOps = NoThoughtOps
    /\ retryDelay = NoRetryDelay
    /\ xg = NoStream

\* refreshAccessToken is called with a refresh blob that holds a refresh token
\* or none; the auth and the project context of that blob are cached.
InitToken ==
    /\ InitQueue
    /\ \E rt \in {"rt0", ""} :
          /\ tok = Idle(Auth0(rt))
          /\ authCache = Cache0(Auth0(rt))
          /\ projectCache = {Auth0(rt).refresh, OtherBlob}
    /\ xf = NoStream
    /\ signatureStore = EmptyMap
    /\ storeOps = NoStoreOps
    /\ thoughtOps = NoThoughtOps
    /\ retryDelay = NoRetryDelay
    /\ xg = NoStream

RefreshCalled ==
    /\ tok.pc = "idle"
    /\ \E t \in {T} : CommitToken(refreshAccessToken(t))

AttemptSettles ==
    /\ tok.pc = "fetch"
    /\ \E resp \in Responses, r \in RandSet, t \in {T} : CommitToken(afterAttempt(t, resp, r))

SleepEnds ==
    /\ tok.pc = "sleep"
    /\ \E t \in {T} : CommitToken(afterSleep(t))

TokenNext ==
    \/ RefreshCalled
    \/ AttemptSettles
    \/ SleepEnds

TokenSpec == InitToken /\ [][TokenNext]_vars

(***************************************************************************)
(* The specification of the streaming transformer.                         *)
(***************************************************************************)
CommitStream(s0) == \E s \in {s0} :
    /\ xf' = s.x
    /\ signatureStore' = s.store
    /\ UNCHANGED <<now, enabled, hasManager, accounts, state, timers, passes, owner,
                   saved, nStarts, midStop, awaitInitial, ev, tok, authCache,
                   projectCache, storeOps, thoughtOps, retryDelay, xg>>

\* A transformer is created for a stream, with an empty SignatureStore.
InitStream ==
    /\ InitQueue
    /\ tok = Idle(Auth0("rt0"))
    /\ authCache = Cache0(Auth0("rt0"))
    /\ projectCache = {Auth0("rt0").refresh, OtherBlob}
    /\ \E input \in Streams, options \in OptionSets :
          xf = newTransformer(1, input, options)
    /\ signatureStore = EmptyMap
    /\ storeOps = NoStoreOps
    /\ thoughtOps = NoThoughtOps
    /\ retryDelay = NoRetryDelay
    /\ xg = NoStream

\* The next chunk of the stream arrives.
Transform ==
    /\ ~xf.closed
    /\ \E k \in 1..(Len(xf.input) - xf.pos), s \in {X} :
          CommitStream(transform(s, SubSeq(xf.input, xf.pos + 1, xf.pos + k)))

\* The stream ends.
Flush ==
    /\ ~xf.closed
    /\ xf.pos = Len(xf.input)
    /\ \E s \in {X} : CommitStream(flush(s))

\* The stream is over; another transformer is created with the same store
\* and options and is fed the same stream.
Create ==
    /\ xf.closed
    /\ xf.n < MaxStreams
    /\ \E s \in {X} :
          CommitStream([s EXCEPT !.x = newTransformer(xf.n + 1, xf.input, xf.options)])

StreamNext ==
    \/ Transform
    \/ Flush
    \/ Create

StreamSpec == InitStream /\ [][StreamNext]_vars

(***************************************************************************)
(* The streaming transformer and transformStreamingPayload on one text.    *)
(***************************************************************************)
\* The lines of a payload, as text.
PayloadLines ==
    { <<>>,
      <<"e">>,
      <<"D", " ">>,
      <<"D", "{", "R", "e9">>,
      <<"D", "{", "}">>,
      <<"D", " ", "{", "R", "A", "e9", "S", "}", " ">> }

\* The payloads: up to MaxLines lines, the last one terminated or not, with a
\* byte order mark in front or none.
Payloads ==
    UNION {{b \o join(ls, NL) \o t : ls \in [1..n -> PayloadLines],
                                    t \in {<<>>, <<NL>>}, b \in {<<>>, <<BOM>>}}
           : n \in 0..MaxLines}

\* Signature caching disabled and no debug text, with a thinking-parts
\* transform or none.
PlainOptions ==
    { Options(FALSE, "", "", FALSE, TRUE),
      Options(FALSE, "", "", FALSE, FALSE) }

\* A transformer is created for the stream that carries the payload.
InitPayload ==
    /\ InitQueue
    /\ tok = Idle(Auth0("rt0"))
    /\ authCache = Cache0(Auth0("rt0"))
    /\ projectCache = {Auth0("rt0").refresh, OtherBlob}
    /\ \E payload \in Payloads, options \in PlainOptions :
          xf = newTransformer(1, encode(payload), options)
    /\ signatureStore = EmptyMap
    /\ storeOps = NoStoreOps
    /\ thoughtOps = NoThoughtOps
    /\ retryDelay = NoRetryDelay
    /\ xg = NoStream

PayloadNext ==
    \/ Transform
    \/ Flush

PayloadSpec == InitPayload /\ [][PayloadNext]_vars

(***************************************************************************)
(* Two streaming transformers that share one SignatureStore.               *)
(***************************************************************************)
\* The streams of the two transformers: thought text and a signature in
\* separate lines, thought text and a signed thought part, a signature alone.
SharedStreams ==
    { join(<< <<"D", "{", "R", "A", "}">>, <<"D", "{", "R", "S", "}">> >>, NL) \o <<NL>>,
      join(<< <<"D", "{", "R", "B", "}">>, <<"D", "{", "R", "c3", "a9", "X", "}">> >>, NL),
      <<"D", "{", "R", "S", "}", NL>>,
      <<"D", "{", "R", "A", "B", "S", "|", "T", "}">> }

SharedOptions == Options(TRUE, "k", "", FALSE, FALSE)

\* A transformer whose closure reads the ThoughtBuffer of the other
\* transformer; C31 tells the two apart.
closureOfOther(own, other, store) ==
    [x |-> [own EXCEPT !.thoughtBuffer = other.thoughtBuffer], store |-> store]

\* What the callbacks of a transformer read and write: the state of its own
\* closure (buffer, thoughtBuffer, debugState) and the store it was given.
closure(own, other, store) == [x |-> own, store |-> store]

SharedUnchanged ==
    UNCHANGED <<now, enabled, hasManager, accounts, state, timers, passes, owner,
                saved, nStarts, midStop, awaitInitial, ev, tok, authCache,
                projectCache, storeOps, thoughtOps, retryDelay>>

CommitFirst(s0) == \E s \in {s0} :
    /\ xf' = s.x
    /\ signatureStore' = s.store
    /\ xg' = xg
    /\ SharedUnchanged

CommitSecond(s0) == \E s \in {s0} :
    /\ xg' = s.x
    /\ signatureStore' = s.store
    /\ xf' = xf
    /\ SharedUnchanged

\* Two transformers are created with the same store and session key, each
\* for its stream.
InitShared ==
    /\ InitQueue
    /\ tok = Idle(Auth0("rt0"))
    /\ authCache = Cache0(Auth0("rt0"))
    /\ projectCache = {Auth0("rt0").refresh, OtherBlob}
    /\ \E input \in SharedStreams : xf = newTransformer(1, input, SharedOptions)
    /\ \E input \in SharedStreams : xg = newTransformer(1, input, SharedOptions)
    /\ signatureStore = EmptyMap
    /\ storeOps = NoStoreOps
    /\ thoughtOps = NoThoughtOps
    /\ retryDelay = NoRetryDelay

\* The next chunk of the first stream arrives.
TransformFirst ==
    /\ ~xf.closed
    /\ \E k \in 1..(Len(xf.input) - xf.pos), s \in {closure(xf, xg, signatureStore)} :
          CommitFirst(transform(s, SubSeq(xf.input, xf.pos + 1, xf.pos + k)))

\* The next chunk of the second stream arrives.
TransformSecond ==
    /\ ~xg.closed
    /\ \E k \in 1..(Len(xg.input) - xg.pos), s \in {closure(xg, xf, signatureStore)} :
          CommitSecond(transform(s, SubSeq(xg.input, xg.pos + 1, xg.pos + k)))

\* The first stream ends.
FlushFirst ==
    /\ ~xf.closed
    /\ xf.pos = Len(xf.input)
    /\ \E s \in {closure(xf, xg, signatureStore)} : CommitFirst(flush(s))

\* The second stream ends.
FlushSecond ==
    /\ ~xg.closed
    /\ xg.pos = Len(xg.input)
    /\ \E s \in {closure(xg, xf, signatureStore)} : CommitSecond(flush(s))

\* The first stream is over; a transformer is created for another stream of
\* the session, with the same store.
CreateFirst ==
    /\ xf.closed
    /\ xf.n < MaxStreams
    /\ \E input \in SharedStreams, s \in {closure(xf, xg, signatureStore)} :
          CommitFirst([s EXCEPT !.x = newTransformer(xf.n + 1, input, xf.options)])

SharedNext ==
    \/ TransformFirst
    \/ TransformSecond
    \/ FlushFirst
    \/ FlushSecond
    \/ CreateFirst

SharedSpec == InitShared /\ [][SharedNext]_vars


(***************************************************************************)
(* The SignatureStore of createSignatureStore, called by its users.        *)
(***************************************************************************)
MaxStoreAge == 3

StoreKeys == {"k", "k2"}
SignedThinkings ==
    { [text |-> <<"A">>, signature |-> "s1"], [text |-> <<"A", "B">>, signature |-> "s2"] }

\* store.delete(key)
mapDelete(map, key) == [k \in DOMAIN map \ {key} |-> map[k]]

\* store.has(key); store.get(key) returns a value under the same condition.
mapHas(map, key) == key \in DOMAIN map

InitStore ==
    /\ InitQueue
    /\ tok = Idle(Auth0("rt0"))
    /\ authCache = Cache0(Auth0("rt0"))
    /\ projectCache = {Auth0("rt0").refresh, OtherBlob}
    /\ xf = NoStream
    /\ signatureStore = EmptyMap
    /\ storeOps = NoStoreOps
    /\ thoughtOps = NoThoughtOps
    /\ retryDelay = NoRetryDelay
    /\ xg = NoStream

StoreUnchanged ==
    UNCHANGED <<enabled, hasManager, accounts, state, timers, passes, owner,
                saved, nStarts, midStop, awaitInitial, ev, tok, authCache,
                projectCache, xf, thoughtOps, retryDelay, xg>>

\* set: (key, value) => { store.set(key, value) }
StoreSet ==
    /\ \E key \in StoreKeys, value \in SignedThinkings :
          /\ signatureStore' = mapSet(signatureStore, key, value)
          /\ storeOps' = [setAt |-> mapSet(storeOps.setAt, key, now),
                          op |-> "set", key |-> key, found |-> FALSE]
    /\ UNCHANGED now
    /\ StoreUnchanged

\* get: (key) => store.get(key)
StoreGet ==
    /\ \E key \in StoreKeys :
          storeOps' = [storeOps EXCEPT !.op = "get", !.key = key,
                                       !.found = mapHas(signatureStore, key)]
    /\ UNCHANGED <<now, signatureStore>>
    /\ StoreUnchanged

\* has: (key) => store.has(key)
StoreHas ==
    /\ \E key \in StoreKeys :
          storeOps' = [storeOps EXCEPT !.op = "has", !.key = key,
                                       !.found = mapHas(signatureStore, key)]
    /\ UNCHANGED <<now, signatureStore>>
    /\ StoreUnchanged

\* delete: (key) => { store.delete(key) }
StoreDelete ==
    /\ \E key \in StoreKeys :
          /\ signatureStore' = mapDelete(signatureStore, key)
          /\ storeOps' = [setAt |-> mapDelete(storeOps.setAt, key),
                          op |-> "delete", key |-> key, found |-> FALSE]
    /\ UNCHANGED now
    /\ StoreUnchanged

\* Time passes between two calls.
StoreTimePasses ==
    /\ now < Now0 + MaxStoreAge
    /\ now' = now + 1
    /\ storeOps' = [storeOps EXCEPT !.op = "none", !.key = "", !.found = FALSE]
    /\ UNCHANGED signatureStore
    /\ StoreUnchanged

StoreNext ==
    \/ StoreSet
    \/ StoreGet
    \/ StoreHas
    \/ StoreDelete
    \/ StoreTimePasses

StoreSpec == InitStore /\ [][StoreNext]_vars

(***************************************************************************)
(* The ThoughtBuffer of createThoughtBuffer, called by its users.          *)
(***************************************************************************)
BufferIndices == {0, 1}
BufferTexts == {<<"A">>, <<"B">>, <<"A", "B">>}

\* set: (index, text) => buffer.set(index, text)
thoughtBufferSet(buffer, index, text) == mapSet(buffer, index, text)

\* get: (index) => buffer.get(index); undefined is written <<>>.
thoughtBufferGet(buffer, index) == getOrEmpty(buffer, index)

InitBuffer ==
    /\ InitQueue
    /\ tok = Idle(Auth0("rt0"))
    /\ authCache = Cache0(Auth0("rt0"))
    /\ projectCache = {Auth0("rt0").refresh, OtherBlob}
    /\ xf = NoStream
    /\ signatureStore = EmptyMap
    /\ storeOps = NoStoreOps
    /\ thoughtOps = NoThoughtOps
    /\ retryDelay = NoRetryDelay
    /\ xg = NoStream

BufferUnchanged ==
    UNCHANGED <<now, enabled, hasManager, accounts, state, timers, passes, owner,
                saved, nStarts, midStop, awaitInitial, ev, tok, authCache,
                projectCache, xf, signatureStore, storeOps, retryDelay, xg>>

BufferSet ==
    /\ \E index \in BufferIndices, text \in BufferTexts :
          thoughtOps' = [buffer |-> thoughtBufferSet(thoughtOps.buffer, index, text),
                         before |-> thoughtOps.buffer, op |-> "set",
                         index |-> index, text |-> text, got |-> <<>>]
    /\ BufferUnchanged

BufferGet ==
    /\ \E index \in BufferIndices :
          thoughtOps' = [thoughtOps EXCEPT
                            !.before = thoughtOps.buffer, !.op = "get",
                            !.index = index, !.text = <<>>,
                            !.got = thoughtBufferGet(thoughtOps.buffer, index)]
    /\ BufferUnchanged

\* clear: () => buffer.clear()
BufferClear ==
    /\ thoughtOps' = [thoughtOps EXCEPT
                         !.buffer = EmptyMap, !.before = thoughtOps.buffer,
                         !.op = "clear", !.index = 0, !.text = <<>>, !.got = <<>>]
    /\ BufferUnchanged

BufferNext ==
    \/ BufferSet
    \/ BufferGet
    \/ BufferClear

BufferSpec == InitBuffer /\ [][BufferNext]_vars

(***************************************************************************)
(* getRetryDelay, called with any attempt index and any jitter draw.       *)
(***************************************************************************)
MaxAttempt == 6

InitDelay == InitBuffer

CallGetRetryDelay ==
    /\ \E attempt \in 0..MaxAttempt, r \in 0..(RandDen - 1) :
          retryDelay' = [called |-> TRUE, attempt |-> attempt, r |-> r,
                         delay |-> getRetryDelay(attempt, r)]
    /\ UNCHANGED <<now, enabled, hasManager, accounts, state, timers, passes, owner,
                   saved, nStarts, midStop, awaitInitial, ev, tok, authCache,
                   projectCache, xf, signatureStore, storeOps, thoughtOps, xg>>

DelayNext == CallGetRetryDelay

DelaySpec == InitDelay /\ [][DelayNext]_vars

(***************************************************************************)
(* The specifications of the refresh queue.                                *)
(***************************************************************************)
Next ==
    \/ SetAccountManager
    \/ Start
    \/ Stop
    \/ InitialTimerFires
    \/ PeriodicTimerFires
    \/ RefreshSettles
    \/ SaveSettles
    \/ AdvanceTime

Spec == Init /\ [][Next]_vars

\* The queue for as long as stop() is not called.  The event loop runs the
\* callback of every pending timer, and an awaited token refresh or save settles.
RunningNext ==
    \/ SetAccountManager
    \/ Start
    \/ InitialTimerFires
    \/ PeriodicTimerFires
    \/ RefreshSettles
    \/ SaveSettles
    \/ AdvanceTime

RunningSpec ==
    /\ Init /\ [][RunningNext]_vars
    /\ WF_vars(InitialTimerFires)
    /\ WF_vars(PeriodicTimerFires)
    /\ WF_vars(RefreshSettles)
    /\ WF_vars(SaveSettles)

\* The queue with stop(), over a span of time in which no account crosses a
\* threshold: the event loop runs the callback of every pending timer, and
\* every awaited token refresh settles.
FairNext ==
    \/ SetAccountManager
    \/ Start
    \/ Stop
    \/ InitialTimerFires
    \/ PeriodicTimerFires
    \/ RefreshSettles
    \/ SaveSettles

FairSpec ==
    /\ Init /\ [][FairNext]_vars
    /\ WF_vars(InitialTimerFires)
    /\ WF_vars(PeriodicTimerFires)
    /\ WF_vars(RefreshSettles)

(***************************************************************************)
(* Properties of the refresh queue.                                        *)
(***************************************************************************)
InFlight == {s \in PassIds : passes[s].origin # "none"}
TickOps == {"initialTick", "periodicTick"}
Last(sq) == sq[Len(sq)]

\* The urgency condition of start(), stated on the accounts.
UrgentNow ==
    /\ hasManager
    /\ \E a \in 1..Len(accounts) : accounts[a] # 0 /\ accounts[a] <= now + 60000

\* A start() that starts the queue.
EffectiveStart == ev'.op = "start" /\ ~state.isRunning /\ state'.isRunning

\* The pass in `slot` goes on with its next candidate, if it has one and the
\* queue is running, and ends otherwise.
Continues(slot) ==
    LET p == passes[slot]
    IN IF p.k < Len(p.cands) /\ state.isRunning
       THEN /\ passes'[slot] = [p EXCEPT !.k = p.k + 1, !.phase = "refresh", !.since = now]
            /\ ev'.initiated = p.cands[p.k + 1]
            /\ state'.isRefreshing
       ELSE /\ passes'[slot] = NoPass
            /\ ev'.initiated = 0
            /\ ~state'.isRefreshing

C1_SkipStep ==
    ev'.skipped =>
        /\ state.isRefreshing /\ state'.isRefreshing
        /\ state'.lastCheckTime = state.lastCheckTime
        /\ state'.refreshCount = state.refreshCount
        /\ state'.errorCount = state.errorCount
        /\ passes' = passes /\ accounts' = accounts /\ owner' = owner
        /\ ev'.began = 0 /\ ev'.cands = <<>> /\ ev'.initiated = 0 /\ ev'.clearedBy = 0

C1_ClearStep ==
    (state.isRefreshing /\ ~state'.isRefreshing) \/ ev'.clearedBy # 0 =>
        /\ ev'.clearedBy # 0
        /\ ev'.clearedBy = ev'.ownerWas

\* C1: at most one refresh pass executes at a time, whatever the interleaving
\* of the urgent start-up pass, the initial tick and the periodic ticks; an
\* invocation of runRefreshCheck made while isRefreshing is true returns
\* without recording a check time, fetching candidates or refreshing; and
\* isRefreshing is cleared only by the pass that set it.
C1_OnePassAtATime ==
    /\ [](/\ Cardinality(InFlight) <= 1
          /\ InFlight # {} => state.isRefreshing /\ owner \in InFlight)
    /\ [][C1_SkipStep /\ C1_ClearStep]_vars

\* A periodic tick has fired during a pass and its invocation was skipped.
C1_Witness ==
    /\ ev.op = "periodicTick" /\ ev.skipped /\ ev.calls = 1
    /\ InFlight # {} /\ state.isRefreshing

\* C2: when stop() is called while a pass is processing its candidate k, and
\* start() is not called later, the pass finishes candidate k (update,
\* counters, persistence attempt), initiates no refresh for a later candidate,
\* and no further scheduled tick fires.
C2_StopMidPass ==
    [][midStop /\ midStop' =>
          /\ ev'.initiated = 0
          /\ ~(ev'.op \in TickOps /\ ev'.calls > 0)
          /\ \A s \in PassIds :
                ev'.op = "refreshSettles" /\ ev'.slot = s /\ ev'.outcome = "ok" =>
                    /\ state'.refreshCount = state.refreshCount + 1
                    /\ passes'[s].phase = "save"]_vars

\* C3: stop() on a running queue sets isRunning to false and cancels any
\* pending scheduled tick: from then until a later start() no timer callback
\* begins a pass, whatever start(), stop() and timer firings came before.
C3_NoPassAfterStop ==
    [][/\ ev'.op = "stop" /\ state.isRunning =>
            /\ ~state'.isRunning
            /\ \A i \in 1..Len(timers') : timers'[i].kind # "periodic"
       /\ ev'.op \in TickOps /\ ~state.isRunning => ev'.began = 0]_vars

C5_SettleStep ==
    ev'.origin = "periodic" =>
        IF state'.isRunning
        THEN /\ ev'.kinds = <<"periodic">>
             /\ 9 * (checkIntervalSeconds * 1000) <= 10 * ev'.delays[1]
             /\ 10 * ev'.delays[1] <= 11 * (checkIntervalSeconds * 1000)
             /\ Len(timers') = Len(timers) + (IF ev'.op = "periodicTick" THEN 0 ELSE 1)
             /\ Last(timers').kind = "periodic"
             /\ state'.intervalHandle = Last(timers').id
        ELSE /\ ev'.kinds = <<>>
             /\ Len(timers') <= Len(timers)

C6_Expected ==
    SelectSeq([i \in 1..Len(accounts) |-> i],
              LAMBDA a : /\ accounts[a] # 0
                         /\ now < accounts[a]
                         /\ accounts[a] <= now + bufferSeconds * 1000)

\* C6: getAccountsNeedingRefresh returns exactly the accounts whose expires is
\* set and now < expires <= now + bufferSeconds * 1000: an account without
\* expires is never returned, an expired one is never returned, and the
\* boundary expires = now + bufferSeconds * 1000 is returned.
C6_Candidates ==
    /\ getAccountsNeedingRefresh(hasManager, accounts, now) =
           (IF hasManager THEN C6_Expected ELSE <<>>)
    /\ ev.began # 0 /\ ev.outcome # "getAccountsThrows" => ev.cands = C6_Expected
    /\ ~needsRefresh(0, now) /\ ~isExpired(0, now)
    /\ needsRefresh(now + bufferSeconds * 1000, now)
    /\ ~needsRefresh(now + bufferSeconds * 1000 + 1, now)
    /\ isExpired(now, now) /\ ~isExpired(now + 1, now)

\* A pass began with an expired account left out and an account at the
\* boundary taken in.
C6_Witness ==
    /\ ev.began # 0
    /\ \E a \in 1..Len(accounts) :
          /\ accounts[a] # 0 /\ accounts[a] <= now
          /\ \A i \in 1..Len(ev.cands) : ev.cands[i] # a
    /\ \E i \in 1..Len(ev.cands) : accounts[ev.cands[i]] = now + bufferSeconds * 1000

\* C7: a failure of the refresh of candidate k increments errorCount by one,
\* leaves refreshCount unchanged and does not abort the pass: the candidates
\* after k are still processed, and a candidate whose refresh succeeds is
\* updated.
C7_FailureIsolated ==
    [][/\ ev'.op = "refreshSettles" /\ ev'.outcome = "throw" =>
            /\ state'.errorCount = state.errorCount + 1
            /\ state'.refreshCount = state.refreshCount
            /\ state'.lastRefreshTime = state.lastRefreshTime
            /\ accounts' = accounts
            /\ Continues(ev'.slot)
       /\ ev'.op = "refreshSettles" /\ ev'.outcome = "ok" =>
            /\ accounts' # accounts
            /\ state'.refreshCount = state.refreshCount + 1
            /\ state'.errorCount = state.errorCount
            /\ passes'[ev'.slot].phase = "save"]_vars

\* The first candidate of a pass failed and the second one was refreshed.
C7_Witness ==
    /\ ev.op = "refreshSettles" /\ ev.outcome = "ok" /\ ev.acct = 2
    /\ passes[ev.slot].cands = <<1, 2>>
    /\ state.errorCount = 1 /\ state.refreshCount = 1

\* C8: on a successful refresh the account is updated, refreshCount is
\* incremented and lastRefreshTime recorded before saveToDisk is attempted;
\* when saveToDisk fails, errorCount is not incremented, the update is kept
\* and the pass goes on with the next candidate.
C8_SaveFailureHarmless ==
    [][/\ ev'.op = "refreshSettles" /\ ev'.outcome = "ok" =>
            /\ accounts' = [accounts EXCEPT ![ev'.acct] = passes[ev'.slot].since + 3600 * 1000]
            /\ state'.refreshCount = state.refreshCount + 1
            /\ state'.lastRefreshTime = now
            /\ passes'[ev'.slot].phase = "save"
            /\ saved' = saved
       /\ ev'.op = "saveSettles" /\ ev'.outcome = "savefail" =>
            /\ state'.errorCount = state.errorCount
            /\ state'.refreshCount = state.refreshCount
            /\ state'.lastRefreshTime = state.lastRefreshTime
            /\ accounts' = accounts
            /\ saved' = saved
            /\ Continues(ev'.slot)]_vars

\* saveToDisk failed for the first candidate and the refresh of the second
\* one was initiated.
C8_Witness ==
    /\ ev.op = "saveSettles" /\ ev.outcome = "savefail"
    /\ ev.acct = 1 /\ ev.initiated = 2
    /\ state.refreshCount = 1 /\ state.errorCount = 0 /\ saved = 0


(***************************************************************************)
(* Properties of the token refresher.                                      *)
(***************************************************************************)
\* C9, as the specification states it: never more than 4 attempts; when every
\* attempt returns a 503 error, exactly 4 attempts are made with 3 sleeps, none
\* after the last attempt, and the final classified error is raised.
C9_RetriesAsStated ==
    /\ tok.attempts <= 4
    /\ tok.pc = "sleep" => tok.attempts < 4
    /\ tok.pc = "done" /\ tok.attempts >= 1 /\ tok.only503 =>
          /\ tok.attempts = 4
          /\ Len(tok.sleeps) = 3
          /\ tok.result = [kind |-> "raise", error |-> tok.lastError]

\* C9: with MAX_RETRIES = 3, refreshAccessToken never makes more than 4
\* attempts; a backoff sleep occurs only between two consecutive attempts; and
\* when every attempt returns a 503 error that carries neither the code
\* invalid_grant nor invalid_client, exactly 4 attempts are made with 3 sleeps,
\* none after the last attempt, and the final classified error is raised.
C9_BoundedRetries ==
    /\ tok.attempts <= 4
    /\ tok.pc = "sleep" => tok.attempts < 4 /\ Len(tok.sleeps) = tok.attempts
    /\ tok.pc \in {"fetch", "done"} /\ tok.attempts >= 1 =>
          Len(tok.sleeps) = tok.attempts - 1
    /\ /\ tok.pc = "done" /\ tok.attempts >= 1 /\ tok.only503
       /\ tok.lastError.code \notin {"invalid_grant", "invalid_client"}
       => /\ tok.attempts = 4
          /\ Len(tok.sleeps) = 3
          /\ tok.lastError.type = "AntigravityTokenRefreshError"
          /\ tok.lastError.status = 503
          /\ tok.result = [kind |-> "raise", error |-> tok.lastError]

\* Four attempts were answered with 503 and the error was raised.
C9_Witness ==
    /\ tok.pc = "done" /\ tok.only503 /\ tok.attempts = 4
    /\ Len(tok.sleeps) = 3
    /\ tok.result.kind = "raise"

\* C10: when the first attempt returns an error whose code is invalid_grant,
\* exactly one attempt is made, no backoff sleep occurs, the classified error
\* is raised at once, and the cached auth and the cached project context of
\* the old refresh blob are removed before the error is raised.
C10_InvalidGrant ==
    /\ tok.attempts = 1
    /\ tok.lastError.type = "AntigravityTokenRefreshError"
    /\ tok.lastError.code = "invalid_grant"
    => /\ tok.pc = "done"
       /\ tok.sleeps = <<>>
       /\ tok.result = [kind |-> "raise", error |-> tok.lastError]
       /\ \A e \in authCache : e.refresh # tok.auth.refresh
       /\ tok.auth.refresh \notin projectCache
       /\ tok.log = <<"invalidateProjectContextCache", "clearCachedAuth", "throw">>
       /\ OtherBlob \in projectCache
       /\ \E e \in authCache : e.refresh = OtherBlob

\* The first attempt was answered with 400 and {"error": "invalid_grant"}.
C10_Witness ==
    /\ tok.pc = "done" /\ tok.attempts = 1
    /\ tok.lastError.code = "invalid_grant" /\ tok.lastError.status = 400
    /\ tok.result.kind = "raise"

\* The classified OAuth errors, and the permanent credential codes.
Classified(error) == error.type = "AntigravityTokenRefreshError"
PermanentCodes == {"invalid_grant", "invalid_client"}

\* C11: a token-exchange failure that carries invalid_grant or invalid_client
\* is never retried, invalidates the cached state keyed by the old refresh
\* blob, and is raised to the caller.
C11_PermanentCodes ==
    Classified(tok.lastError) /\ tok.lastError.code \in PermanentCodes =>
        /\ tok.pc = "done"
        /\ Len(tok.sleeps) = tok.attempts - 1
        /\ tok.result = [kind |-> "raise", error |-> tok.lastError]
        /\ \A e \in authCache : e.refresh # tok.auth.refresh
        /\ tok.auth.refresh \notin projectCache

\* C12, as the specification states it: when every attempt fails with a
\* transient error, MAX_RETRIES retries are made with a backoff between the
\* attempts, and the failure is then raised.
C12_ExhaustionAsStated ==
    tok.pc = "done" /\ tok.attempts >= 1 /\ tok.transient =>
        /\ tok.attempts = 4
        /\ Len(tok.sleeps) = 3
        /\ tok.result.kind = "raise"

\* C12: when every attempt fails with a transient error, 3 retries are made
\* with a backoff sleep before each, and once the attempts are exhausted the
\* last error is raised if it is a classified OAuth error; if it is a failure
\* of the network transport, the no-op result is returned instead.
C12_Exhaustion ==
    /\ tok.pc = "fetch" /\ tok.transient => Len(tok.sleeps) = tok.attempts - 1
    /\ tok.pc = "done" /\ tok.attempts >= 1 /\ tok.transient =>
          /\ tok.attempts = 4
          /\ Len(tok.sleeps) = 3
          /\ tok.result = (IF Classified(tok.lastError)
                           THEN [kind |-> "raise", error |-> tok.lastError]
                           ELSE [kind |-> "undefined"])

\* Four attempts failed on the network and the no-op result was returned.
C12_Witness ==
    /\ tok.pc = "done" /\ tok.transient /\ tok.attempts = 4
    /\ tok.lastError.network
    /\ tok.result.kind = "undefined"

\* An error that is no classified OAuth error and is not retryable.
C13_Unexpected(error) ==
    /\ error.type \notin {"none", "AntigravityTokenRefreshError", "TypeError"}
    /\ ~error.mentionsFetch

\* C13: an error of an attempt that is no classified OAuth error and is not
\* retryable ends refreshAccessToken after that attempt with the no-op result;
\* a classified OAuth error that is not retryable, or that still fails when
\* the attempts are exhausted, is raised and never turned into a no-op.
C13_SwallowOrRaise ==
    /\ C13_Unexpected(tok.lastError) =>
          /\ tok.pc = "done"
          /\ tok.result = [kind |-> "undefined"]
    /\ /\ Classified(tok.lastError)
       /\ \/ tok.lastError.code \in PermanentCodes
          \/ ~(tok.lastError.status >= 500 \/ tok.lastError.status = 429)
       => /\ tok.pc = "done"
          /\ tok.result = [kind |-> "raise", error |-> tok.lastError]
    /\ tok.pc = "done" /\ Classified(tok.lastError) /\ tok.result.kind # "value" =>
          tok.result = [kind |-> "raise", error |-> tok.lastError]

\* The third attempt threw an unexpected error and undefined was returned.
C13_Witness ==
    /\ tok.pc = "done" /\ tok.attempts = 3
    /\ C13_Unexpected(tok.lastError)
    /\ tok.result.kind = "undefined"

C14_Step ==
    IF tok'.result.kind = "value" /\ tok.pc # "done"
    THEN /\ tok'.result.value \in authCache'
         /\ tok.auth.refresh \notin projectCache'
         /\ tok'.log = <<"storeCachedAuth", "invalidateProjectContextCache", "return">>
         /\ tok'.pc = "done"
    ELSE authCache' \subseteq authCache

\* C14: on every successful refresh, on the first attempt or after retries,
\* the new auth value is stored in the auth cache and the project context of
\* the prior refresh blob is invalidated before the value is returned; on a
\* failing or no-op outcome nothing is stored in the auth cache.
C14_CacheOnSuccess == [][C14_Step]_vars

\* A refresh succeeded on its third attempt, with a new refresh token.
C14_Witness ==
    /\ tok.pc = "done" /\ tok.attempts = 3 /\ tok.result.kind = "value"
    /\ tok.result.value.refresh # tok.auth.refresh
    /\ tok.result.value \in authCache

\* C15: isRetryableError: a classified OAuth error with a permanent code is
\* not retryable whatever its status; another classified OAuth error is
\* retryable iff its status is >= 500 or 429; an error that is not classified
\* is retryable iff it is a failure of the network transport.
C15_Retryable ==
    tok.lastError.type # "none" =>
        (isRetryableError(tok.lastError) <=>
            IF Classified(tok.lastError)
            THEN /\ tok.lastError.code \notin PermanentCodes
                 /\ tok.lastError.status >= 500 \/ tok.lastError.status = 429
            ELSE tok.lastError.network)

(***************************************************************************)
(* Properties of the streaming transformer.                                *)
(***************************************************************************)
\* C16: for every stream and every partition of its bytes into chunks, a
\* split inside a transformable line or inside a character included, what the
\* transformer has emitted when the stream ends, and the sequence of its
\* SignatureStore writes, are those of the whole stream fed as a single chunk.
C16_ChunkingInvariant ==
    xf.closed =>
        /\ xf.out = SingleChunk(xf.input, xf.options, EmptyMap).x.out
        /\ xf.writes = SingleChunk(xf.input, xf.options, EmptyMap).x.writes

\* A stream was cut inside the two-byte character of a thought part, and the
\* text of that part was stored with its signature.
C16_Witness ==
    /\ xf.closed /\ xf.midChar
    /\ \E i \in 1..Len(xf.writes) : xf.writes[i].text = <<"e9", "C">>
    /\ xf.out # xf.input

\* A line that is not transformable: no event prefix, an empty payload, a
\* payload that is no JSON, or a record without a response field.
NotTransformable(line) ==
    \/ ~startsWithData(line)
    \/ trim(Tail(line)) = <<>>
    \/ ~JSONparse(trim(Tail(line))).ok
    \/ ~JSONparse(trim(Tail(line))).hasResponse

\* The stream without its lines that are not transformable.
TransformableOnly(input) ==
    encode(join(SelectSeq(split(decode(<<>>, input).text, NL),
                          LAMBDA l : ~NotTransformable(l)), NL))

\* What was emitted for the transformable lines handled so far.
TransformedLines(x) ==
    LET kept == SelectSeq(x.trace, LAMBDA e : ~NotTransformable(e.line))
    IN [i \in 1..Len(kept) |-> kept[i].out]

responseOf(line) ==
    IF NotTransformable(line) THEN NoResponse ELSE JSONparse(trim(Tail(line))).response

RECURSIVE Flatten(_)
Flatten(seqs) == IF seqs = <<>> THEN <<>> ELSE Head(seqs) \o Flatten(Tail(seqs))

\* The parts of the candidates of a response, each with its candidate index.
IndexedParts(response) ==
    Flatten([i \in 1..Len(response.candidates) |->
                [k \in 1..Len(response.candidates[i].parts) |->
                    [index |-> i - 1, part |-> response.candidates[i].parts[k]]]])

\* The parts of all candidate-list responses of the lines, in arrival order.
ArrivedParts(trace) ==
    Flatten([i \in 1..Len(trace) |-> IndexedParts(responseOf(trace[i].line))])

\* The thought text of the first j parts that belong to the candidate index.
ThoughtSoFar(parts, j, index) ==
    Flatten([i \in 1..j |-> IF parts[i].index = index /\ isThought(parts[i].part)
                            THEN textOf(parts[i].part)
                            ELSE <<>>])

\* The store writes C18 states for the parts.
PairedWrites(parts, key) ==
    LET signed == SelectSeq([j \in 1..Len(parts) |-> j],
                            LAMBDA j : /\ signatureOf(parts[j].part) # UNDEF
                                       /\ ThoughtSoFar(parts, j, parts[j].index) # <<>>)
    IN [n \in 1..Len(signed) |->
           [key |-> key,
            text |-> ThoughtSoFar(parts, signed[n], parts[signed[n]].index),
            signature |-> signatureOf(parts[signed[n]].part)]]

\* C18: with signature caching enabled and a session key configured, after
\* any sequence of lines with candidate-list responses: the ThoughtBuffer
\* entry of every candidate index is the concatenation, in arrival order, of
\* the thought text seen in this stream for that index; every part with a
\* signature has written {text, signature} to the SignatureStore under the
\* session key, text being the thought text seen so far for its candidate
\* index, and has written nothing if that text is empty.
C18_SignaturePairing ==
    LET parts == ArrivedParts(xf.trace)
        key == xf.options.signatureSessionKey
    IN /\ xf.options.cacheSignatures /\ key # ""
       /\ \A i \in 1..Len(xf.trace) : responseOf(xf.trace[i].line).shape # "B"
       => /\ \A index \in 0..2 :
                getOrEmpty(xf.thoughtBuffer, index) = ThoughtSoFar(parts, Len(parts), index)
          /\ DOMAIN xf.thoughtBuffer =
                {index \in 0..2 : ThoughtSoFar(parts, Len(parts), index) # <<>>}
          /\ xf.writes = PairedWrites(parts, key)
          /\ xf.writes # <<>> =>
                /\ key \in DOMAIN signatureStore
                /\ signatureStore[key].text = xf.writes[Len(xf.writes)].text
                /\ signatureStore[key].signature = xf.writes[Len(xf.writes)].signature

\* Candidate 0 came with the thought parts A and B and then a signature,
\* candidate 1 without thinking: the buffer of index 0 holds AB, the store
\* holds {AB, signature}, and nothing was written for candidate 1.
C18_Witness ==
    /\ xf.closed /\ Len(xf.trace) = 1
    /\ xf.trace[1].line = <<"D", "{", "R", "A", "B", "S", "|", "T", "}">>
    /\ DOMAIN xf.thoughtBuffer = {0}
    /\ xf.thoughtBuffer[0] = <<"A", "B">>
    /\ DOMAIN signatureStore = {"k"}
    /\ signatureStore["k"] = [text |-> <<"A", "B">>, signature |-> "s1"]
    /\ Len(xf.writes) = 1

\* The emitted line went through the debug injection.
Injected(out) == \E k \in 1..Len(out) : out[k] = "onInjectDebug"

\* C19: with debugText and onInjectDebug configured, the debug injection is
\* applied to exactly one line of a stream, the first that carries a response,
\* before the thinking-parts transform is applied to it, and to no later line;
\* this holds for every transformer, so one created for another stream
\* injects once again.
C19_InjectOnce ==
    xf.options.debugText # "" /\ xf.options.onInjectDebug =>
        \A i \in 1..Len(xf.trace) :
            /\ Injected(xf.trace[i].out) <=>
                  /\ ~NotTransformable(xf.trace[i].line)
                  /\ \A j \in 1..(i - 1) : NotTransformable(xf.trace[j].line)
            /\ Injected(xf.trace[i].out) =>
                  SubSeq(xf.trace[i].out, 1, 6) =
                     IF xf.options.transformThinkingParts
                     THEN <<"D", " ", "transformThinkingParts", "(", "onInjectDebug", "(">>
                     ELSE SubSeq(<<"D", " ", "onInjectDebug", "(">>
                                 \o JSONstringify(responseOf(xf.trace[i].line)), 1, 6)

\* The second transformer injected into the first of two lines that carry a
\* response, as the first transformer had, and not into the second.
C19_Witness ==
    /\ xf.n = 2 /\ xf.closed /\ Len(xf.trace) = 2
    /\ xf.options.transformThinkingParts
    /\ Injected(xf.trace[1].out)
    /\ ~NotTransformable(xf.trace[2].line)
    /\ ~Injected(xf.trace[2].out)

(***************************************************************************)
(* Properties of the SignatureStore.                                       *)
(***************************************************************************)
\* C20: the SignatureStore is bounded in time: an entry older than the fixed
\* TTL is no longer returned by get or has.  Whatever the TTL is, an entry set
\* when the time modelled began has expired when it ends.
C20_Expires ==
    storeOps.op \in {"get", "has"} /\ storeOps.found =>
        now - storeOps.setAt[storeOps.key] < MaxStoreAge

(***************************************************************************)
(* Properties of the ThoughtBuffer.                                        *)
(***************************************************************************)
\* C21: ThoughtBuffer.set(index, text) appends text to the text accumulated
\* for the index: after set(i, a) and set(i, b), get(i) returns a followed by
\* b, and the entries of the other indices are unchanged.
C21_SetAppends ==
    thoughtOps.op = "set" =>
        /\ thoughtBufferGet(thoughtOps.buffer, thoughtOps.index) =
              thoughtBufferGet(thoughtOps.before, thoughtOps.index) \o thoughtOps.text
        /\ \A i \in BufferIndices \ {thoughtOps.index} :
              thoughtBufferGet(thoughtOps.buffer, i) = thoughtBufferGet(thoughtOps.before, i)

(***************************************************************************)
(* Properties of getRetryDelay.                                            *)
(***************************************************************************)
\* The delay of an attempt before the jitter.
C22_Base(attempt) ==
    IF INITIAL_RETRY_DELAY_MS * 2 ^ attempt <= MAX_RETRY_DELAY_MS
    THEN INITIAL_RETRY_DELAY_MS * 2 ^ attempt
    ELSE MAX_RETRY_DELAY_MS

\* The delay is the base of its attempt perturbed by at most 20 % either way
\* and floored, and the base does not decrease with the attempt.
C22_Jittered ==
    /\ 10 * (retryDelay.delay + 1) > 8 * C22_Base(retryDelay.attempt)
    /\ 10 * retryDelay.delay <= 12 * C22_Base(retryDelay.attempt)
    /\ \A a \in 0..retryDelay.attempt : C22_Base(a) <= C22_Base(retryDelay.attempt)

\* C22, as the specification states it: for every attempt index and jitter
\* draw the delay is min(INITIAL_RETRY_DELAY_MS * 2^attempt, MAX_RETRY_DELAY_MS)
\* perturbed by at most 20 % either way and floored, the base is
\* non-decreasing in the attempt, and the delay is never above
\* MAX_RETRY_DELAY_MS.
C22_DelayAsStated ==
    retryDelay.called =>
        /\ C22_Jittered
        /\ retryDelay.delay <= MAX_RETRY_DELAY_MS

\* C22: for every attempt index and jitter draw the delay is
\* min(INITIAL_RETRY_DELAY_MS * 2^attempt, MAX_RETRY_DELAY_MS) perturbed by at
\* most 20 % either way and floored, the base is non-decreasing in the attempt,
\* and the delay is never above 1.2 times MAX_RETRY_DELAY_MS.
C22_DelayBounds ==
    retryDelay.called =>
        /\ C22_Jittered
        /\ 10 * retryDelay.delay <= 12 * MAX_RETRY_DELAY_MS

\* A capped delay that the jitter has pushed above MAX_RETRY_DELAY_MS.
C22_Witness ==
    /\ retryDelay.called
    /\ INITIAL_RETRY_DELAY_MS * 2 ^ retryDelay.attempt > MAX_RETRY_DELAY_MS
    /\ retryDelay.delay > MAX_RETRY_DELAY_MS

(***************************************************************************)
(* Further properties of the refresh queue.                                *)
(***************************************************************************)
\* A call that C23 states to be a no-op.
C23_NoOpCall ==
    \/ ev'.op = "start" /\ (state.isRunning \/ ~enabled)
    \/ ev'.op = "stop" /\ ~state.isRunning

\* C23: start() on a running or a disabled queue, and stop() on a queue that
\* is not running, leave isRunning, isRefreshing, the counters and the pending
\* timers unchanged and begin no pass; a disabled queue is never running and
\* never has a timer.
C23_NoOps ==
    /\ [][C23_NoOpCall =>
             /\ state' = state
             /\ timers' = timers
             /\ passes' = passes /\ accounts' = accounts /\ saved' = saved
             /\ ev'.calls = 0 /\ ev'.began = 0 /\ ev'.kinds = <<>>
             /\ ev'.cancelled = 0]_vars
    /\ [](~enabled => ~state.isRunning /\ timers = <<>>)

\* start() was called on a running queue whose timer is pending, and created
\* no timer.
C23_Witness ==
    /\ ev.op = "start" /\ ev.kinds = <<>> /\ ev.calls = 0
    /\ enabled /\ state.isRunning /\ timers # <<>>

\* C24: a refresh pass executes only while the queue is running: no pass
\* begins (isRefreshing becomes true) while isRunning is false, and a token
\* refresh is initiated for an account only when isRunning is true.
C24_OnlyWhileRunning ==
    [][/\ ev'.began # 0 => state'.isRunning
       /\ ev'.initiated # 0 => state'.isRunning]_vars

\* C25: the queue has at most one pending scheduled check, that timer is the
\* one held in intervalHandle, and after stop() no timer is pending.
C25_SingleHandle ==
    /\ Len(timers) <= 1
    /\ timers # <<>> => timers[1].id = state.intervalHandle
    /\ ~state.isRunning => timers = <<>>

\* The passes that await a token refresh or a save.
Awaiting == {s \in PassIds : passes[s].phase \in {"refresh", "save"}}

C26_InitiateStep ==
    ev'.initiated # 0 =>
        \E s \in PassIds :
            /\ passes'[s].phase = "refresh"
            /\ passes'[s].cands[passes'[s].k] = ev'.initiated
            /\ \A t \in PassIds \ {s} : passes'[t].phase \notin {"refresh", "save"}
            /\ Awaiting \subseteq {s}
            /\ IF passes[s].origin = "none"
               THEN passes'[s].k = 1
               ELSE /\ passes'[s].k = passes[s].k + 1
                    /\ passes'[s].cands = passes[s].cands
                    /\ \/ ev'.op = "saveSettles" /\ passes[s].phase = "save"
                       \/ /\ ev'.op = "refreshSettles" /\ passes[s].phase = "refresh"
                          /\ ev'.outcome \in {"noop", "throw", "updateThrows"}

\* C26: the refreshes of a queue are strictly serial: at most one token
\* refresh initiated by the queue is in flight at any moment, and the refresh
\* of candidate k+1 is initiated only after the refresh of candidate k, its
\* in-memory update and its save have settled, in the order of the candidates.
C26_Serial ==
    /\ [](Cardinality(Awaiting) <= 1)
    /\ [][C26_InitiateStep]_vars

\* The save of the first candidate settled and the refresh of the second one
\* was initiated.
C26_Witness ==
    /\ ev.op = "saveSettles" /\ ev.acct = 1 /\ ev.initiated = 2
    /\ passes[ev.slot].k = 2 /\ passes[ev.slot].phase = "refresh"

(***************************************************************************)
(* Further properties of the token refresher.                              *)
(***************************************************************************)
\* C27: a success-status answer without a string access_token raises a
\* classified error with status 500 and statusText "Invalid Response" and
\* stores nothing in the auth cache; it is retried like any classified error
\* of status >= 500, so when every attempt is answered that way MAX_RETRIES + 1
\* attempts are made and that error is raised.
C27_InvalidResponse ==
    tok.attempts >= 1 /\ tok.noToken /\ tok.pc # "fetch" =>
        /\ tok.lastError = AntigravityTokenRefreshError(UNDEF, 500, "Invalid Response")
        /\ authCache = Cache0(tok.auth)
        /\ tok.pc = "done" =>
              /\ tok.attempts = 4
              /\ tok.result = [kind |-> "raise", error |-> tok.lastError]

C28_Step ==
    tok.pc = "fetch" /\ tok'.result.kind = "value" =>
        /\ tok'.auth = tok.auth
        /\ tok'.result.value.type = tok.auth.type
        /\ tok'.result.value.access = tok'.resp.access_token
        /\ tok'.result.value.access # tok.auth.access
        /\ tok'.result.value.expires =
              now + 1000 * (IF tok'.resp.expires_in > 0 THEN tok'.resp.expires_in ELSE 3600)
        /\ tok'.result.value.refresh[1] =
              (IF tok'.resp.refresh_token # UNDEF THEN tok'.resp.refresh_token
               ELSE tok.auth.refresh[1])
        /\ tok'.result.value.refresh[2] = tok.auth.refresh[2]
        /\ tok'.result.value.refresh[3] = tok.auth.refresh[3]
        /\ DOMAIN tok'.result.value = DOMAIN tok.auth

\* C28: a successful refresh returns a new auth value and leaves the input
\* auth as it was; the new refresh blob holds the refresh token the endpoint
\* issued, or the previous one if it issued none, with projectId and
\* managedProjectId unchanged, and only the access token, the expiry and the
\* refresh blob differ from the input.
C28_NewValue == [][C28_Step]_vars

\* The endpoint issued no refresh token, and the refresh blob of the new value
\* is the one of the input.
C28_Witness ==
    /\ tok.pc = "done" /\ tok.result.kind = "value"
    /\ tok.resp.refresh_token = UNDEF
    /\ tok.result.value.refresh = tok.auth.refresh
    /\ tok.result.value.access = "at1" /\ tok.auth.access = "at0"

(***************************************************************************)
(* Further properties of the streaming transformer.                        *)
(***************************************************************************)
\* The lines that have arrived: those a newline has ended, and what follows
\* the last newline.
ArrivedLines(x) ==
    LET d == decode(<<>>, SubSeq(x.input, 1, x.pos))
        text == IF x.closed THEN d.text \o decodeEnd(d.pending) ELSE d.text
        ls == split(text, NL)
    IN [terminated |-> SubSeq(ls, 1, Len(ls) - 1), rest |-> ls[Len(ls)]]

\* The lines to be handled so far: the terminated ones, and at the end of the
\* stream the unterminated segment if it is not empty.
LinesDue(x) ==
    ArrivedLines(x).terminated
        \o (IF x.closed /\ ArrivedLines(x).rest # <<>>
            THEN <<ArrivedLines(x).rest>> ELSE <<>>)

RECURSIVE TransformsOf(_, _, _)
\* The transforms of the lines, one after the other.
TransformsOf(lines, options, injected) ==
    IF lines = <<>> THEN <<>>
    ELSE LET res == transformSseLine(Head(lines), Caches(EmptyMap, EmptyMap, <<>>),
                                     options, injected)
         IN <<res.line>> \o TransformsOf(Tail(lines), options, res.injected)

Newlines(bytes) == Len(SelectSeq(bytes, LAMBDA b : b = NL))

\* C29: one line is emitted per input line, in arrival order, the k-th
\* emitted line being the transform of the k-th input line; a line that a
\* newline ended is emitted with a newline, the unterminated non-empty
\* segment left at the end of the stream is handled then and emitted without
\* one, so that the number and the positions of the line terminators are
\* those of the input.
C29_LinePerLine ==
    LET lines == LinesDue(xf)
        outs == TransformsOf(lines, xf.options, FALSE)
        n == Len(ArrivedLines(xf).terminated)
    IN /\ Len(xf.trace) = Len(lines)
       /\ \A k \in 1..Len(xf.trace) :
             /\ xf.trace[k].line = lines[k]
             /\ xf.trace[k].out = outs[k]
             /\ xf.trace[k].terminator = (IF k <= n THEN <<NL>> ELSE <<>>)
       /\ xf.out = Flatten([k \in 1..Len(lines) |->
                               encode(outs[k] \o (IF k <= n THEN <<NL>> ELSE <<>>))])
       /\ Newlines(xf.out) = Newlines(SubSeq(xf.input, 1, xf.pos))
       /\ \A k \in 1..Len(lines) : split(xf.out, NL)[k] = encode(outs[k])

\* A terminated line that passes through and an unterminated line that is
\* rewritten: two lines were emitted, the stream does not end with a newline.
C29_Witness ==
    /\ xf.closed /\ Len(xf.trace) = 2
    /\ xf.trace[1].terminator = <<NL>> /\ xf.trace[2].terminator = <<>>
    /\ xf.trace[1].out = <<"e">>
    /\ xf.trace[2].out # xf.trace[2].line
    /\ xf.out[Len(xf.out)] # NL
    /\ Newlines(xf.out) = 1

\* The thinking text of the first j blocks of a content list.
ThinkingUpTo(blocks, j) ==
    Flatten([i \in 1..j |-> IF isThought(blocks[i]) THEN textOf(blocks[i]) ELSE <<>>])

\* The store writes C30 states for the blocks of one response.
BlockWrites(blocks, key) ==
    LET signed == SelectSeq([j \in 1..Len(blocks) |-> j],
                            LAMBDA j : /\ signatureOf(blocks[j]) # UNDEF
                                       /\ ThinkingUpTo(blocks, j) # <<>>)
    IN [n \in 1..Len(signed) |->
           [key |-> key,
            text |-> ThinkingUpTo(blocks, signed[n]),
            signature |-> signatureOf(blocks[signed[n]])]]

\* C30: with signature caching enabled, the blocks of a content-list response
\* are visited in order, and every block with a signature stores under the
\* session key that signature with the concatenation of the text of the
\* thinking blocks at or before it in the same response; a block with a
\* signature and no thinking text before it stores nothing.
C30_ContentBlocks ==
    LET key == xf.options.signatureSessionKey
    IN /\ xf.options.cacheSignatures /\ key # ""
       /\ \A i \in 1..Len(xf.trace) : responseOf(xf.trace[i].line).shape # "A"
       => /\ xf.writes =
                Flatten([i \in 1..Len(xf.trace) |->
                            IF responseOf(xf.trace[i].line).shape = "B"
                            THEN BlockWrites(responseOf(xf.trace[i].line).content, key)
                            ELSE <<>>])
          /\ xf.writes # <<>> =>
                /\ key \in DOMAIN signatureStore
                /\ signatureStore[key].text = xf.writes[Len(xf.writes)].text
                /\ signatureStore[key].signature = xf.writes[Len(xf.writes)].signature

\* Two content-list responses: in the first the thinking blocks A and X and a
\* text block precede the last signature, in the second a signature comes
\* before any thinking text and stores nothing.
C30_Witness ==
    /\ xf.closed /\ Len(xf.trace) = 2
    /\ xf.trace[1].line = <<"D", "{", "R", "b", "A", "X", "T", "S", "}">>
    /\ xf.trace[2].line = <<"D", "{", "R", "b", "S", "A", "S", "}">>
    /\ xf.writes = << [key |-> "k", text |-> <<"A", "C">>, signature |-> "s2"],
                      [key |-> "k", text |-> <<"A", "C">>, signature |-> "s1"],
                      [key |-> "k", text |-> <<"A">>, signature |-> "s1"] >>
    /\ signatureStore["k"] = [text |-> <<"A">>, signature |-> "s1"]

\* The transformer has accumulated the thought text of its own stream, and
\* its store writes pair each signature with that text.
OwnTextOnly(x) ==
    LET parts == ArrivedParts(x.trace)
    IN /\ \A index \in 0..2 :
             getOrEmpty(x.thoughtBuffer, index) = ThoughtSoFar(parts, Len(parts), index)
       /\ x.writes = PairedWrites(parts, x.options.signatureSessionKey)

\* The entry of the store under the key is left as it was, or it is the pair
\* the transformer x has written last in this step, made of the signature and
\* the thought text of its own stream.
C31_StoreStep(key, x) ==
    \/ key \in DOMAIN signatureStore /\ signatureStore'[key] = signatureStore[key]
    \/ LET own == PairedWrites(ArrivedParts(x.trace), key)
       IN /\ key = x.options.signatureSessionKey
          /\ own # <<>>
          /\ signatureStore'[key].text = own[Len(own)].text
          /\ signatureStore'[key].signature = own[Len(own)].signature

\* C31: two transformers share one SignatureStore and the session key, and
\* their chunks arrive in any interleaving: each accumulates the thought text
\* of its own stream in its own ThoughtBuffer, and every entry that comes
\* into the store is a pair written by one of them, whose text is thought
\* text of the stream that delivered the signature and of no other or
\* earlier stream.
C31_OwnStreamOnly ==
    /\ [](OwnTextOnly(xf) /\ OwnTextOnly(xg))
    /\ [][\A key \in DOMAIN signatureStore' :
             C31_StoreStep(key, IF xf' # xf THEN xf' ELSE xg')]_vars

\* The first stream is under way and holds the thought text A in its buffer,
\* its signature still to come; meanwhile the second stream has stored its
\* signature with its own text.
C31_Witness ==
    /\ ~xf.closed /\ 0 < xf.pos /\ xf.pos < Len(xf.input)
    /\ xf.thoughtBuffer = (0 :> <<"A">>)
    /\ xf.writes = <<>>
    /\ xg.thoughtBuffer = (0 :> <<"B", "e9", "C">>)
    /\ xg.writes = << [key |-> "k", text |-> <<"B", "e9", "C">>, signature |-> "s2"] >>
    /\ signatureStore = ("k" :> [text |-> <<"B", "e9", "C">>, signature |-> "s2"])

(***************************************************************************)
(* Further properties of the refresh queue.                                *)
(***************************************************************************)
\* C32: the queue initiates no proactive refresh for an account that is
\* expired (expires <= now) at the moment the refresh is initiated, the
\* candidates included whose turn comes after the token exchanges of the
\* candidates before them.
C32_NeverExpired ==
    ev.initiated # 0 => ~isExpired(accounts[ev.initiated], now)

\* A pass awaits saveToDisk().
SavePending == \E s \in PassIds : passes[s].phase = "save"

\* C33 as stated: every pass that sets isRefreshing sets it back to false,
\* provided each awaited token refresh settles.
C33_FlagResetAsStated == state.isRefreshing ~> ~state.isRefreshing

\* C33: every pass that sets isRefreshing to true sets it back to false in the
\* end, provided each awaited token refresh and each awaited saveToDisk()
\* settles: when the pass ends normally, finds no candidates, stops early
\* because the queue was stopped, or leaves through an exception of the
\* account manager.
C33_FlagReset ==
    []<>(~SavePending) => (state.isRefreshing ~> ~state.isRefreshing)

\* A pass began and left at once through an exception of getAccounts(), and
\* isRefreshing is false again.
C33_Witness ==
    /\ ev.began # 0 /\ ev.clearedBy = ev.began
    /\ ev.outcome = "getAccountsThrows"
    /\ ~state.isRefreshing /\ state.lastCheckTime = now

\* The queue is at rest.
Quiescent ==
    /\ ~state.isRunning /\ ~state.isRefreshing
    /\ timers = <<>>
    /\ \A s \in PassIds : passes[s].origin = "none"

\* A step that initiates no token refresh and leaves the statistics alone.
QuietStep ==
    /\ ev'.initiated = 0
    /\ state'.refreshCount = state.refreshCount
    /\ state'.errorCount = state.errorCount
    /\ state'.lastCheckTime = state.lastCheckTime
    /\ state'.lastRefreshTime = state.lastRefreshTime

\* C34 as stated: after stop() with no start() after it, provided the token
\* refresh in flight settles, the queue comes to rest and stays at rest.
C34_QuiescenceAsStated ==
    <>[](~state.isRunning) => (<>[]Quiescent /\ <>[][QuietStep]_vars)

\* C34: after stop() with no start() after it, provided the token refresh in
\* flight and the saveToDisk() awaited after it settle, the queue comes to
\* rest and stays at rest for ever: isRunning and isRefreshing false, no timer
\* pending, no token refresh initiated any more, and refreshCount,
\* errorCount, lastCheckTime and lastRefreshTime no longer changing.
C34_Quiescence ==
    ([]<>(~SavePending) /\ <>[](~state.isRunning))
        => (<>[]Quiescent /\ <>[][QuietStep]_vars)

\* stop() was called while a pass awaited the refresh of its first candidate;
\* the refresh has settled, the pass has seen the stop flag before the second
\* candidate, and the queue is at rest.
C34_Witness ==
    /\ ev.op = "refreshSettles" /\ ev.clearedBy # 0 /\ ev.initiated = 0
    /\ ev.acct = 1 /\ midStop
    /\ Quiescent

\* The text whose encoding the stream carries.
PayloadOf(x) == decode(<<>>, x.input).text

====
